---- MODULE Spec2Model ----
(***************************************************************************)
(* Model of the JSON <-> spreadsheet converters of dataly_manager.          *)
(*                                                                         *)
(* Representation.                                                         *)
(*  - A text (slot text, label cell, sentence cell) is a sequence of       *)
(*    one-character strings, so that strip(), the "[Type] body" pattern    *)
(*    and the bracket wrapping are computed character by character.        *)
(*    A blank spreadsheet cell (NaN after read_excel) is the empty text.   *)
(*  - Document ids, metadata values and dictionary keys are atoms.         *)
(*  - A Python dict is a sequence of entries with pairwise distinct keys   *)
(*    (insertion order), a Python list is a sequence.                      *)
(*  - exp_sentence is a record [kind, text, items, entries]:               *)
(*      kind "none"  absent or null                                        *)
(*      kind "str"   a bare string (text)                                  *)
(*      kind "list"  a list (items); an item is a dict (ikind "dict",      *)
(*                   entries) or a non-dict element (ikind "bare", text)   *)
(*      kind "dict"  a dict (entries)                                      *)
(*    An entry is [key, vkind, text, elems, feature, sent]: the value is   *)
(*    a string (vkind "scalar"), a list of strings (vkind "list") or a     *)
(*    {feature, sent} object (vkind "obj").                                *)
(***************************************************************************)
EXTENDS Integers, Sequences, FiniteSets, TLC

VARIABLES
  json_obj,      \* the parsed JSON "document" list, mutated by the reconciler
  json_orig,     \* the document list as it was parsed (never changed)
  excel_df,      \* the rows of the spreadsheet handed to the reconciler
  has_type_col,  \* whether the spreadsheet has a 유형 column
  skip_blank,    \* the skip_blank argument of the reconcile call
  source,        \* where excel_df comes from: "none", "export", "export_edit", "upload"
  pc,            \* "loaded", "sheet" (a spreadsheet is at hand), "applied"
  zf,            \* the member names of the uploaded ZIP archive (zf.namelist())
  arg,           \* the argument of a helper function called on its own
  ret,           \* what a call returned or raised
  fs,            \* the base directory of the weekly merge: its folders and the runs so far
  session_state  \* st.session_state of the quiz page

vars ==
  <<json_obj, json_orig, excel_df, has_type_col, skip_blank, source, pc, zf, arg, ret, fs,
    session_state>>

\* the variables the two spreadsheet pipelines leave alone
io == <<zf, arg, ret>>

\* the variables of the weekly merge and of the quiz page
aux == <<fs, session_state>>

\* no call was made
Nothing == [status |-> "none"]

---------------------------------------------------------------------------
(* Generic helpers *)

MinOf(S) == CHOOSE x \in S : \A y \in S : x <= y

MaxOf(S) == CHOOSE x \in S : \A y \in S : y <= x

RECURSIVE Concat(_)
Concat(ss) == IF ss = <<>> THEN <<>> ELSE Head(ss) \o Concat(Tail(ss))

RemoveAt(s, i) == SubSeq(s, 1, i - 1) \o SubSeq(s, i + 1, Len(s))

---------------------------------------------------------------------------
(* Python string operations on texts *)

\* str.strip(): drop leading and trailing blanks
Strip(s) ==
  LET keep == {i \in 1..Len(s) : s[i] # " "}
  IN  IF keep = {} THEN <<>> ELSE SubSeq(s, MinOf(keep), MaxOf(keep))

\* s.startswith("[") and s.endswith("]")
Bracketed(s) == Len(s) >= 1 /\ s[1] = "[" /\ s[Len(s)] = "]"

\* s[1:-1]
Inner(s) == SubSeq(s, 2, Len(s) - 1)

\* TYPE_BRACKET_RE = ^\s*\[(.+?)\]\s*(.*)$ ; the groups are returned stripped,
\* as every caller strips them
TYPE_BRACKET_RE(s) ==
  LET nonblank == {i \in 1..Len(s) : s[i] # " "}
      open     == IF nonblank = {} THEN 0 ELSE MinOf(nonblank)
      closes   == {c \in (open + 2)..Len(s) : s[c] = "]"}
  IN  IF open > 0 /\ s[open] = "[" /\ closes # {}
      THEN [matched |-> TRUE,
            g1 |-> Strip(SubSeq(s, open + 1, MinOf(closes) - 1)),
            g2 |-> Strip(SubSeq(s, MinOf(closes) + 1, Len(s)))]
      ELSE [matched |-> FALSE, g1 |-> <<>>, g2 |-> <<>>]

_strip_brackets(s) ==
  IF s = <<>> THEN <<>>
  ELSE LET t == Strip(s) IN IF Bracketed(t) THEN Strip(Inner(t)) ELSE t

\* f"[{t}]" if t else ""  after removing one pair of brackets
\* a faulty wrapping: brackets are added around a label that already has them
WrapFeatureAgain(typ) == IF typ # <<>> THEN <<"[">> \o typ \o <<"]">> ELSE <<>>

\* t = typ without one enclosing pair of brackets; f"[{t}]" if t else ""
WrapFeature(typ) ==
  LET t == IF Bracketed(typ) THEN Strip(Inner(typ)) ELSE typ
  IN  IF t # <<>> THEN <<"[">> \o t \o <<"]">> ELSE <<>>

_compose_text_with_type(old_text, new_sentence, excel_type) ==
  LET s_new    == Strip(new_sentence)
      t_raw    == Strip(excel_type)
      m        == TYPE_BRACKET_RE(old_text)
      old_type == IF m.matched THEN m.g1 ELSE <<>>
      old_body == IF m.matched THEN m.g2 ELSE Strip(old_text)
      t_new    == IF Bracketed(t_raw) THEN Strip(Inner(t_raw)) ELSE t_raw
      body     == IF s_new # <<>> THEN s_new ELSE old_body
      final    == IF t_new # <<>> THEN t_new ELSE old_type
  IN  IF final # <<>>
      THEN Strip(<<"[">> \o final \o <<"]", " ">> \o body)
      ELSE body

---------------------------------------------------------------------------
(* JSON values *)

NoText == <<>>

ExpNone == [kind |-> "none", text |-> NoText, items |-> <<>>, entries |-> <<>>]

ExpStr(t) == [kind |-> "str", text |-> t, items |-> <<>>, entries |-> <<>>]

ExpList(its) == [kind |-> "list", text |-> NoText, items |-> its, entries |-> <<>>]

ExpDict(es) == [kind |-> "dict", text |-> NoText, items |-> <<>>, entries |-> es]

ItemDict(es) == [ikind |-> "dict", entries |-> es, text |-> NoText]

ItemBare(t) == [ikind |-> "bare", entries |-> <<>>, text |-> t]

EScalar(k, t) ==
  [key |-> k, vkind |-> "scalar", text |-> t, elems |-> <<>>,
   feature |-> NoText, sent |-> NoText]

EList(k, ts) ==
  [key |-> k, vkind |-> "list", text |-> NoText, elems |-> ts,
   feature |-> NoText, sent |-> NoText]

EObj(k, f, s) ==
  [key |-> k, vkind |-> "obj", text |-> NoText, elems |-> <<>>,
   feature |-> f, sent |-> s]

\* A dictionary key: a stem and the first run of digits in it (num = -1: none).
\* f"설명 문장{idx}" is Key("exp", idx).
Key(stem, n) == [stem |-> stem, num |-> n]

HasKey(es, k) == \E i \in 1..Len(es) : es[i].key = k

KeyPos(es, k) == CHOOSE i \in 1..Len(es) : es[i].key = k

\* d[k] = e  (overwrite in place, or append)
DictSet(es, e) ==
  IF HasKey(es, e.key) THEN [es EXCEPT ![KeyPos(es, e.key)] = e] ELSE Append(es, e)

\* d.pop(k, None)
DictPop(es, k) == IF HasKey(es, k) THEN RemoveAt(es, KeyPos(es, k)) ELSE es

---------------------------------------------------------------------------
(* Schema navigation of final_json_to_excel.py *)

\* Code-point order of the key stems that carry no digits
StemRank(stem) == CASE stem = "any" -> 1 [] stem = "k" -> 2 [] OTHER -> 3

\* key_fn of _sort_label_keys: (0, int) for a key with digits, (1, key) otherwise
KeyLess(a, b) ==
  IF a.num >= 0
  THEN b.num < 0 \/ a.num < b.num
  ELSE b.num < 0 /\ StemRank(a.stem) < StemRank(b.stem)

\* sorted(keys, key=key_fn), stable: the positions of the entries in sorted order
_sort_label_keys(es) ==
  LET n == Len(es)
      before(i, j) == \/ KeyLess(es[i].key, es[j].key)
                      \/ (~KeyLess(es[j].key, es[i].key) /\ i < j)
      rank(i) == Cardinality({j \in 1..n : before(j, i)})
  IN  [r \in 1..n |-> CHOOSE i \in 1..n : rank(i) = r - 1]

\* any(isinstance(v, dict) and ("sent" in v or "feature" in v) for v in exp.values())
IsNew(exp) ==
  exp.kind = "dict" /\ \E i \in 1..Len(exp.entries) : exp.entries[i].vkind = "obj"

\* Slot descriptors: ("list", v, i), ("dict_scalar", obj, key), ("new_obj", exp, label).
\* The container object is named by its place: the EX index, the item index in
\* the exp_sentence list (0: the exp_sentence dict itself) and the key; host
\* "ex" is the EX entry itself (a bare-string exp_sentence).
Desc(mode, host, e, it, k, i) ==
  [mode |-> mode, host |-> host, ex |-> e, item |-> it, key |-> k, idx |-> i]

Slot(d, old_text, old_feature, old_sent) ==
  [desc |-> d, old_text |-> old_text, old_feature |-> old_feature, old_sent |-> old_sent]

NoKey == Key("", -1)

\* the slots of one key -> value entry of an old-format dict
SlotsOfEntry(host, e, it, en) ==
  IF en.vkind = "list"
  THEN [i \in 1..Len(en.elems) |->
          Slot(Desc("list", host, e, it, en.key, i), en.elems[i], NoText, NoText)]
  ELSE <<Slot(Desc("dict_scalar", host, e, it, en.key, 0), en.text, NoText, NoText)>>

SlotsOfEntries(host, e, it, es) ==
  Concat([j \in 1..Len(es) |-> SlotsOfEntry(host, e, it, es[j])])

SlotsOfNew(e, exp) ==
  LET order == _sort_label_keys(exp.entries)
  IN  Concat([r \in 1..Len(order) |->
        LET en == exp.entries[order[r]]
        IN  IF en.vkind # "obj" THEN <<>>
            ELSE <<Slot(Desc("new_obj", "exp", e, 0, en.key, 0),
                        NoText, en.feature, en.sent)>>])

SlotsOfEx(e, exp) ==
  CASE exp.kind = "none" -> <<>>
    [] exp.kind = "dict" /\ IsNew(exp) -> SlotsOfNew(e, exp)
    [] exp.kind = "list" ->
         Concat([it \in 1..Len(exp.items) |->
           IF exp.items[it].ikind = "dict"
           THEN SlotsOfEntries("item", e, it, exp.items[it].entries)
           ELSE <<>>])
    [] exp.kind = "dict" /\ ~IsNew(exp) -> SlotsOfEntries("exp", e, 0, exp.entries)
    [] exp.kind = "str" ->
         <<Slot(Desc("dict_scalar", "ex", e, 0, NoKey, 0), exp.text, NoText, NoText)>>

_iter_sentence_slots_with_old(doc) ==
  Concat([e \in 1..Len(doc.EX) |-> SlotsOfEx(e, doc.EX[e].exp_sentence)])

---------------------------------------------------------------------------
(* Forward extraction of final_json_to_excel.py *)

Pair(typ, sent) == [typ |-> typ, sent |-> sent]

\* one old-format string: skipped when empty, else split by TYPE_BRACKET_RE
PairsOfText(s) ==
  IF s = <<>> THEN <<>>
  ELSE LET text == Strip(s)
           m    == TYPE_BRACKET_RE(text)
       IN  IF m.matched THEN <<Pair(m.g1, m.g2)>> ELSE <<Pair(NoText, text)>>

PairsOfEntry(en) ==
  IF en.vkind = "list"
  THEN Concat([i \in 1..Len(en.elems) |-> PairsOfText(en.elems[i])])
  ELSE PairsOfText(en.text)

PairsOfEntries(es) == Concat([j \in 1..Len(es) |-> PairsOfEntry(es[j])])

PairsOfNew(exp) ==
  LET order == _sort_label_keys(exp.entries)
  IN  Concat([r \in 1..Len(order) |->
        LET en == exp.entries[order[r]]
        IN  IF en.vkind # "obj" \/ Strip(en.sent) = <<>> THEN <<>>
            ELSE <<Pair(_strip_brackets(en.feature), Strip(en.sent))>>])

\* the bare-string branch drops a string that is blank after strip()
PairsOfStr(s) == IF Strip(s) = <<>> THEN <<>> ELSE PairsOfText(Strip(s))

PairsOfEx(exp) ==
  CASE exp.kind = "none" -> <<>>
    [] exp.kind = "dict" /\ IsNew(exp) -> PairsOfNew(exp)
    [] exp.kind = "list" ->
         Concat([it \in 1..Len(exp.items) |->
           IF exp.items[it].ikind = "dict"
           THEN PairsOfEntries(exp.items[it].entries)
           ELSE <<>>])
    [] exp.kind = "dict" /\ ~IsNew(exp) -> PairsOfEntries(exp.entries)
    [] exp.kind = "str" -> PairsOfStr(exp.text)

extract_sentences(doc) ==
  Concat([e \in 1..Len(doc.EX) |-> PairsOfEx(doc.EX[e].exp_sentence)])

---------------------------------------------------------------------------
(* Slot mutation and cleanup of final_json_to_excel.py *)

\* the entries of the dict a descriptor points into
HostEntries(doc, d) ==
  IF d.host = "item"
  THEN doc.EX[d.ex].exp_sentence.items[d.item].entries
  ELSE doc.EX[d.ex].exp_sentence.entries

WithHostEntries(doc, d, es) ==
  IF d.host = "item"
  THEN [doc EXCEPT !.EX[d.ex].exp_sentence.items[d.item].entries = es]
  ELSE [doc EXCEPT !.EX[d.ex].exp_sentence.entries = es]

\* lst[idx] = new_text / obj[key] = new_text ; a "new_obj" slot is not handled here
_assign_text_to_slot(doc, d, new_text) ==
  CASE d.mode = "list" ->
         LET es == HostEntries(doc, d)
             p  == KeyPos(es, d.key)
         IN  WithHostEntries(doc, d, [es EXCEPT ![p].elems[d.idx] = new_text])
    [] d.mode = "dict_scalar" /\ d.host = "ex" ->
         [doc EXCEPT !.EX[d.ex].exp_sentence = ExpStr(new_text)]
    [] d.mode = "dict_scalar" /\ d.host # "ex" ->
         WithHostEntries(doc, d, DictSet(HostEntries(doc, d), EScalar(d.key, new_text)))
    [] OTHER -> doc

\* obj["feature"] = feature_out ; obj["sent"] = sent_out
AssignNewObj(doc, d, feature_out, sent_out) ==
  WithHostEntries(doc, d, DictSet(HostEntries(doc, d), EObj(d.key, feature_out, sent_out)))

\* a faulty deletion: pops the head of the list instead of the element at idx
DeleteSlotHead(doc, d) ==
  CASE d.mode = "list" ->
         LET es == HostEntries(doc, d)
             p  == KeyPos(es, d.key)
         IN  IF Len(es[p].elems) >= 1
             THEN WithHostEntries(doc, d, [es EXCEPT ![p].elems = Tail(@)])
             ELSE doc
    [] d.mode = "dict_scalar" /\ d.host = "ex" ->
         [doc EXCEPT !.EX[d.ex].exp_sentence = ExpNone]
    [] OTHER -> WithHostEntries(doc, d, DictPop(HostEntries(doc, d), d.key))

_delete_slot(doc, d) ==
  CASE d.mode = "list" ->
         LET es == HostEntries(doc, d)
             p  == KeyPos(es, d.key)
         IN  IF 1 <= d.idx /\ d.idx <= Len(es[p].elems)
             THEN WithHostEntries(doc, d, [es EXCEPT ![p].elems = RemoveAt(@, d.idx)])
             ELSE doc
    [] d.mode = "dict_scalar" /\ d.host = "ex" ->
         [doc EXCEPT !.EX[d.ex].exp_sentence = ExpNone]
    [] OTHER -> WithHostEntries(doc, d, DictPop(HostEntries(doc, d), d.key))

\* [str(s).strip() for s in v if str(s or "").strip()]
StripKeep(ts) == Concat([i \in 1..Len(ts) |-> IF Strip(ts[i]) = <<>> THEN <<>> ELSE <<Strip(ts[i])>>])

\* old-format dict: keep the keys whose value is non-empty after strip()
CleanEntries(es) ==
  Concat([j \in 1..Len(es) |->
    IF es[j].vkind = "list"
    THEN IF StripKeep(es[j].elems) = <<>> THEN <<>>
         ELSE <<EList(es[j].key, StripKeep(es[j].elems))>>
    ELSE IF Strip(es[j].text) = <<>> THEN <<>>
         ELSE <<EScalar(es[j].key, Strip(es[j].text))>>])

\* new-format dict: drop non-dict values and objects whose feature and sent are empty
CleanNew(es) ==
  Concat([j \in 1..Len(es) |->
    IF es[j].vkind # "obj" \/ (Strip(es[j].feature) = <<>> /\ Strip(es[j].sent) = <<>>)
    THEN <<>>
    ELSE <<EObj(es[j].key, Strip(es[j].feature), Strip(es[j].sent))>>])

\* list: drop non-dict items and the dict items left without a key
CleanItems(its) ==
  Concat([i \in 1..Len(its) |->
    IF its[i].ikind # "dict" \/ CleanEntries(its[i].entries) = <<>> THEN <<>>
    ELSE <<ItemDict(CleanEntries(its[i].entries))>>])

CleanExp(exp) ==
  CASE exp.kind = "dict" /\ IsNew(exp) ->
         IF CleanNew(exp.entries) = <<>> THEN ExpNone ELSE ExpDict(CleanNew(exp.entries))
    [] exp.kind = "list" ->
         IF CleanItems(exp.items) = <<>> THEN ExpNone ELSE ExpList(CleanItems(exp.items))
    [] exp.kind = "dict" /\ ~IsNew(exp) ->
         IF CleanEntries(exp.entries) = <<>> THEN ExpNone
         ELSE ExpDict(CleanEntries(exp.entries))
    [] OTHER -> exp

_cleanup_exp_sentences(doc) ==
  [doc EXCEPT !.EX = [e \in 1..Len(doc.EX) |->
                        [doc.EX[e] EXCEPT !.exp_sentence = CleanExp(@)]]]

---------------------------------------------------------------------------
(* Documents, metadata and spreadsheet rows *)

\* the display order of the metadata keys
META_ORDER ==
  <<"note", "image", "copyright", "term_id", "Major_category", "title", "url",
    "Medium_category", "domain", "media_id", "publisher", "term", "source_id">>

MEntry(k, v) == [key |-> k, val |-> v]

\* meta.get(k, "")
MetaGet(meta, k) == IF HasKey(meta, k) THEN meta[KeyPos(meta, k)].val ELSE ""

\* meta_obj.update(other)
RECURSIVE MetaUpdate(_, _)
MetaUpdate(meta, other) ==
  IF other = <<>> THEN meta ELSE MetaUpdate(DictSet(meta, Head(other)), Tail(other))

ExEntry(ref, exp) == [reference_type |-> ref, exp_sentence |-> exp]

Doc(id, meta, ex) == [id |-> id, metadata |-> meta, EX |-> ex]

\* A spreadsheet row as read_excel returns it: a blank cell is "" (an atom
\* column) or the empty text (유형, 설명 문장) or the empty dict (a metadata cell
\* is kept as the dict _parse_metadata_cell reads from it).
Row(id, mc, typ, sent, meta) ==
  [id |-> id, Medium_category |-> mc, typ |-> typ, sent |-> sent, metadata |-> meta]

\* the display text of a metadata block and what _parse_metadata_cell reads back
\* from it: every key of META_ORDER with the value as a string
format_metadata_and_url(meta) ==
  [i \in 1..Len(META_ORDER) |-> MEntry(META_ORDER[i], MetaGet(meta, META_ORDER[i]))]

\* to_rows for one document: one row per extracted pair, or one blank row
RowsOfDoc(doc) ==
  LET found == extract_sentences(doc)
      pairs == IF found = <<>> THEN <<Pair(NoText, NoText)>> ELSE found
  IN  [i \in 1..Len(pairs) |->
        Row(doc.id, MetaGet(doc.metadata, "Medium_category"),
            pairs[i].typ, pairs[i].sent, format_metadata_and_url(doc.metadata))]

to_rows(docs) == Concat([d \in 1..Len(docs) |-> RowsOfDoc(docs[d])])

\* _write_excel_to_bytes then read_excel: the id, Medium_category and metadata
\* columns are merged over start .. start + count - 1 of every id with more
\* than one row, and a merged cell below the top of its range reads back blank
WriteReadExcel(rows) ==
  LET start(id) == MinOf({i \in 1..Len(rows) : rows[i].id = id})
      count(id) == Cardinality({i \in 1..Len(rows) : rows[i].id = id})
      covered(r) == \E i \in 1..Len(rows) :
                       /\ count(rows[i].id) > 1
                       /\ start(rows[i].id) < r
                       /\ r <= start(rows[i].id) + count(rows[i].id) - 1
  IN  [r \in 1..Len(rows) |->
        IF covered(r)
        THEN Row("", "", rows[r].typ, rows[r].sent, <<>>)
        ELSE rows[r]]

---------------------------------------------------------------------------
(* Reading the edited rows, final_json_to_excel.py *)

\* Series.ffill(): a blank cell takes the last non-blank value above it
FFill(col, blank) ==
  [i \in 1..Len(col) |->
    LET above == {j \in 1..i : col[j] # blank}
    IN  IF above = {} THEN blank ELSE col[MaxOf(above)]]

\* tmp["id"].ffill().astype(str): a cell still blank becomes the string "nan"
IdColumn(df) ==
  LET filled == FFill([i \in 1..Len(df) |-> df[i].id], "")
  IN  [i \in 1..Len(df) |-> IF filled[i] = "" THEN "nan" ELSE filled[i]]

\* a faulty reading: the 유형 column is not forward-filled
TypColumnNoFill(df) == [i \in 1..Len(df) |-> Strip(df[i].typ)]

\* tmp["유형"].ffill().fillna("").astype(str), stripped row by row
TypColumn(df) ==
  LET filled == FFill([i \in 1..Len(df) |-> df[i].typ], NoText)
  IN  [i \in 1..Len(df) |-> Strip(filled[i])]

SentColumn(df) == [i \in 1..Len(df) |-> Strip(df[i].sent)]

\* the rows that _collect_excel_pairs_by_id puts into bucket[id]
BucketRows(df, skip, id) ==
  {i \in 1..Len(df) : IdColumn(df)[i] = id /\ ~(skip /\ SentColumn(df)[i] = <<>>)}

\* mapping.get(id, []) of mapping = _collect_excel_pairs_by_id(df, skip_blank)
_collect_excel_pairs_by_id(df, skip, id) ==
  Concat([i \in 1..Len(df) |->
    IF i \in BucketRows(df, skip, id)
    THEN <<Pair(TypColumn(df)[i], SentColumn(df)[i])>>
    ELSE <<>>])

\* _collect_medium_by_id: the first non-blank Medium_category of the id, after
\* forward-filling the column; "" when the id is not in the map
_collect_medium_by_id(df, id) ==
  LET mc   == FFill([i \in 1..Len(df) |-> df[i].Medium_category], "")
      hits == {i \in 1..Len(df) : IdColumn(df)[i] = id /\ mc[i] # ""}
  IN  IF hits = {} THEN "" ELSE mc[MinOf(hits)]

\* _collect_note_by_id: the first non-blank note among the id's metadata cells
_collect_note_by_id(df, id) ==
  LET hits == {i \in 1..Len(df) :
                 IdColumn(df)[i] = id /\ MetaGet(df[i].metadata, "note") # ""}
  IN  IF hits = {} THEN "" ELSE MetaGet(df[MinOf(hits)].metadata, "note")

\* _collect_metadata_by_id: the first non-empty metadata dict of the id
_collect_metadata_by_id(df, id) ==
  LET hits == {i \in 1..Len(df) : IdColumn(df)[i] = id /\ df[i].metadata # <<>>}
  IN  IF hits = {} THEN <<>> ELSE df[MinOf(hits)].metadata

---------------------------------------------------------------------------
(* apply_excel_desc_to_photo_json, final_json_to_excel.py *)

\* 2-1) the document-level fields
ApplyMetadata(doc, df, skip) ==
  LET meta_from_excel == _collect_metadata_by_id(df, doc.id)
      mc_val   == _collect_medium_by_id(df, doc.id)
      note_val == _collect_note_by_id(df, doc.id)
      touched  == /\ doc.id # ""
                  /\ (meta_from_excel # <<>> \/ mc_val # "" \/ note_val # "" \/ ~skip)
      m1 == MetaUpdate(doc.metadata, meta_from_excel)
      m2 == IF mc_val # "" \/ ~skip
            THEN DictSet(m1, MEntry("Medium_category", mc_val)) ELSE m1
      m3 == IF note_val # "" \/ ~skip THEN DictSet(m2, MEntry("note", note_val)) ELSE m2
  IN  IF touched THEN [doc EXCEPT !.metadata = m3] ELSE doc

\* the creation loop: exp[f"설명 문장{idx}"] = {feature, sent} for every row that is
\* not blank in both cells
RECURSIVE CreateLoop(_, _, _)
CreateLoop(es, seq, idx) ==
  IF seq = <<>> THEN es
  ELSE LET typ  == Strip(Head(seq).typ)
           sent == Strip(Head(seq).sent)
       IN  IF typ = <<>> /\ sent = <<>>
           THEN CreateLoop(es, Tail(seq), idx)
           ELSE CreateLoop(DictSet(es, EObj(Key("exp", idx), WrapFeature(typ), sent)),
                           Tail(seq), idx + 1)

\* no slot at all and rows for the id: create structured slots in EX[0]
CreateSlots(doc, seq) ==
  LET ex_list == IF doc.EX = <<>> THEN <<ExEntry("", ExpDict(<<>>))>> ELSE doc.EX
      exp0    == ex_list[1].exp_sentence
      base    == IF exp0.kind = "dict" THEN exp0.entries ELSE <<>>
      filled  == ExpDict(CreateLoop(base, seq, 1))
  IN  _cleanup_exp_sentences(
        [doc EXCEPT !.EX = [ex_list EXCEPT ![1].exp_sentence = filled]])

\* one pass of the pairing loop body for slot i
WriteSlot(doc, slot, pair) ==
  LET typ_clean  == Strip(pair.typ)
      sent_clean == Strip(pair.sent)
  IN  IF typ_clean = <<>> /\ sent_clean = <<>> THEN doc
      ELSE IF slot.desc.mode = "new_obj"
      THEN AssignNewObj(doc, slot.desc,
             IF typ_clean # <<>> THEN WrapFeature(typ_clean) ELSE Strip(slot.old_feature),
             IF sent_clean # <<>> THEN sent_clean ELSE Strip(slot.old_sent))
      ELSE _assign_text_to_slot(doc, slot.desc,
             _compose_text_with_type(slot.old_text, sent_clean, typ_clean))

RECURSIVE WriteLoop(_, _, _, _, _)
WriteLoop(doc, slots, seq, i, n) ==
  IF i > n THEN doc
  ELSE WriteLoop(WriteSlot(doc, slots[i], seq[i]), slots, seq, i + 1, n)

\* delete_slot_indices: the paired slots whose row is blank in both cells, then
\* the slots beyond the rows
DeleteIndices(slots, seq) ==
  LET n == IF Len(seq) < Len(slots) THEN Len(seq) ELSE Len(slots)
  IN  {i \in 1..n : Strip(seq[i].typ) = <<>> /\ Strip(seq[i].sent) = <<>>}
        \cup (n + 1)..Len(slots)

RECURSIVE SortedAscending(_)
SortedAscending(S) ==
  IF S = {} THEN <<>> ELSE <<MinOf(S)>> \o SortedAscending(S \ {MinOf(S)})

\* sorted(delete_slot_indices, reverse=True)
RECURSIVE SortedReverse(_)
SortedReverse(S) ==
  IF S = {} THEN <<>> ELSE <<MaxOf(S)>> \o SortedReverse(S \ {MaxOf(S)})

RECURSIVE DeleteLoop(_, _, _)
DeleteLoop(doc, slots, order) ==
  IF order = <<>> THEN doc
  ELSE DeleteLoop(_delete_slot(doc, slots[Head(order)].desc), slots, Tail(order))

\* 2-2) the explanation slots of one document
ApplySlots(doc, seq) ==
  LET slots == _iter_sentence_slots_with_old(doc)
      n     == IF Len(seq) < Len(slots) THEN Len(seq) ELSE Len(slots)
  IN  IF slots = <<>> /\ seq # <<>>
      THEN CreateSlots(doc, seq)
      ELSE _cleanup_exp_sentences(
             DeleteLoop(WriteLoop(doc, slots, seq, 1, n), slots,
                        SortedReverse(DeleteIndices(slots, seq))))

ApplyDoc(doc, df, skip) ==
  ApplySlots(ApplyMetadata(doc, df, skip), _collect_excel_pairs_by_id(df, skip, doc.id))

apply_excel_desc_to_photo_json(docs, df, skip) ==
  [d \in 1..Len(docs) |-> ApplyDoc(docs[d], df, skip)]

---------------------------------------------------------------------------
(* The photo documents and spreadsheets the model explores *)

MaxRows == 2

T_Pp == <<"[", "P", "]", " ", "p">>

T_q == <<"q">>

T_Qr == <<"[", "Q", "]", " ", "r">>

T_pad == <<" ", "p", " ">>

Meta1 == <<MEntry("note", "N1"), MEntry("Medium_category", "M1"), MEntry("url", "U1")>>

Meta2 == <<MEntry("title", "T1"), MEntry("extra", "E1")>>

\* one list-valued key holding two strings
ExList2 == ExEntry("", ExpList(<<ItemDict(<<EList(Key("any", -1), <<T_Pp, T_q>>)>>)>>))

\* three strings in one list
ExList3 == ExEntry("", ExpList(<<ItemDict(<<EList(Key("any", -1), <<T_Pp, T_q, T_Qr>>)>>)>>))

\* the structured form, inserted out of key order
ExNew2 ==
  ExEntry("", ExpDict(<<EObj(Key("exp", 2), NoText, T_q),
                        EObj(Key("exp", 1), <<"[", "P", "]">>, <<"p">>)>>))

\* scalar-valued keys in list items
ExScalars ==
  ExEntry("", ExpList(<<ItemDict(<<EScalar(Key("k", -1), T_q)>>),
                        ItemDict(<<EScalar(Key("any", -1), T_pad)>>)>>))

\* an old-format dict
ExOldDict == ExEntry("", ExpDict(<<EList(Key("any", -1), <<T_Qr>>), EScalar(Key("k", -1), T_q)>>))

ExStr == ExEntry("", ExpStr(T_Pp))

ExNone == ExEntry("", ExpNone)

\* a list of bare strings: no element of it is a slot
ExBare == ExEntry("", ExpList(<<ItemBare(T_q)>>))

\* an old-format dict whose only value is an empty list: no slot either
ExHollow == ExEntry("", ExpDict(<<EList(Key("exp", 1), <<>>)>>))

Corpus ==
  { <<Doc("D1", Meta1, <<ExList2>>)>>,
    <<Doc("D1", Meta1, <<ExList3>>), Doc("D2", Meta2, <<ExNew2>>)>>,
    <<Doc("D1", Meta2, <<ExNew2>>), Doc("D2", Meta1, <<ExNone>>)>>,
    <<Doc("D1", Meta1, <<ExNone, ExNone>>)>>,
    <<Doc("D2", Meta2, <<>>), Doc("D1", Meta1, <<ExStr, ExOldDict>>)>>,
    <<Doc("D1", Meta1, <<ExScalars, ExList2>>)>>,
    <<Doc("D1", Meta1, <<ExStr>>), Doc("D1", Meta2, <<ExList2>>)>>,
    <<Doc("D1", Meta1, <<ExBare, ExHollow>>)>>,
    <<Doc("D1", Meta1, <<ExStr>>), Doc("D2", Meta1, <<ExStr>>), Doc("D1", Meta2, <<ExStr>>)>> }

IdCells == {"D1", "D2"}

\* label cells: blank, bare, bracketed, and an empty pair of brackets
TypCells == {NoText, <<"A">>, <<"[", "B", "]">>, <<"[", "]">>}

SentCells == {NoText, <<"x">>, <<"y">>}

MetaCells == {<<>>, <<MEntry("note", "N2")>>, <<MEntry("note", ""), MEntry("title", "T2")>>}

\* workbooks whose label and sentence columns were typed in: every label and
\* sentence for D1, one filled and one blank row for D2
SentenceRows ==
  {Row("D1", "", typ, sent, <<>>) : typ \in TypCells, sent \in SentCells}
    \cup {Row("D2", "", <<"A">>, <<"x">>, <<>>), Row("D2", "", NoText, NoText, <<>>)}

\* workbooks whose document-level columns were typed in
MetaRows ==
  {Row(id, mc, <<"A">>, <<"x">>, meta) : id \in IdCells, mc \in {"", "M2"}, meta \in MetaCells}

Sheets(rows) == UNION {[1..n -> rows] : n \in 0..MaxRows}

---------------------------------------------------------------------------
(* The photo pipeline: parse, export or upload a workbook, reconcile *)

Init ==
  /\ json_obj \in Corpus
  /\ json_orig = json_obj
  /\ excel_df = <<>>
  /\ has_type_col = TRUE
  /\ skip_blank = FALSE
  /\ source = "none"
  /\ pc = "loaded"
  /\ zf = <<>>
  /\ arg = Nothing
  /\ ret = Nothing
  /\ fs = Nothing
  /\ session_state = Nothing

\* photo_json_to_xlsx_bytes, and the workbook read back
Export ==
  /\ pc = "loaded"
  /\ excel_df' = WriteReadExcel(to_rows(json_obj))
  /\ source' = "export"
  /\ pc' = "sheet"
  /\ UNCHANGED <<json_obj, json_orig, has_type_col, skip_blank>>
  /\ UNCHANGED <<io, aux>>

\* the annotator retypes the label and sentence cells of one exported row
EditRow ==
  /\ pc = "sheet" /\ source = "export"
  /\ \E i \in 1..Len(excel_df), typ \in TypCells, sent \in SentCells :
       excel_df' = [excel_df EXCEPT ![i].typ = typ, ![i].sent = sent]
  /\ source' = "export_edit"
  /\ UNCHANGED <<json_obj, json_orig, has_type_col, skip_blank, pc>>
  /\ UNCHANGED <<io, aux>>

\* the annotator removes one exported row
RemoveRow ==
  /\ pc = "sheet" /\ source = "export"
  /\ \E i \in 1..Len(excel_df) : excel_df' = RemoveAt(excel_df, i)
  /\ source' = "export_edit"
  /\ UNCHANGED <<json_obj, json_orig, has_type_col, skip_blank, pc>>
  /\ UNCHANGED <<io, aux>>

\* a workbook prepared elsewhere is uploaded with the JSON
Upload ==
  /\ pc = "loaded"
  /\ \/ excel_df' \in Sheets(SentenceRows)
     \/ excel_df' \in Sheets(MetaRows)
  /\ source' = "upload"
  /\ pc' = "sheet"
  /\ UNCHANGED <<json_obj, json_orig, has_type_col, skip_blank>>
  /\ UNCHANGED <<io, aux>>

\* apply_excel_desc_to_photo_json(json_obj, df, skip_blank)
Apply ==
  /\ pc = "sheet"
  /\ \E sb \in BOOLEAN :
       /\ skip_blank' = sb
       /\ json_obj' = apply_excel_desc_to_photo_json(json_obj, excel_df, sb)
  /\ pc' = "applied"
  /\ UNCHANGED <<json_orig, excel_df, has_type_col, source>>
  /\ UNCHANGED <<io, aux>>

Next == Export \/ EditRow \/ RemoveRow \/ Upload \/ Apply

Spec == Init /\ [][Next]_vars

---------------------------------------------------------------------------
(* What a reader sees of the slots: read() -> (label, text) *)

View(label, text) == [label |-> label, text |-> text]

ViewOfSlot(slot) ==
  IF slot.desc.mode = "new_obj"
  THEN View(_strip_brackets(slot.old_feature), Strip(slot.old_sent))
  ELSE LET m == TYPE_BRACKET_RE(slot.old_text)
       IN  IF m.matched THEN View(m.g1, m.g2) ELSE View(NoText, Strip(slot.old_text))

\* the (label, text) sequence of the live slots of a document
SlotView(doc) ==
  LET slots == _iter_sentence_slots_with_old(doc)
  IN  [i \in 1..Len(slots) |-> ViewOfSlot(slots[i])]

\* the same for one EX entry
SlotViewEx(doc, e) ==
  LET slots == SlotsOfEx(e, doc.EX[e].exp_sentence)
  IN  [i \in 1..Len(slots) |-> ViewOfSlot(slots[i])]

Docs == 1..Len(json_orig)

\* no other document of the upload carries the same id
UniqueId(d) == \A o \in Docs : json_orig[o].id = json_orig[d].id => o = d

\* the rows of the spreadsheet that belong to an id (its block, after the id
\* column is forward-filled), in row order
RowsOfId(id) ==
  LET ids == IdColumn(excel_df)
  IN  SelectSeq([i \in 1..Len(excel_df) |-> i], LAMBDA i : ids[i] = id)

BlankRow(i) == Strip(excel_df[i].typ) = <<>> /\ Strip(excel_df[i].sent) = <<>>

\* the (type, sentence) sequence the reconciler pairs with the slots of document d
SeqOf(d) == _collect_excel_pairs_by_id(excel_df, skip_blank, json_orig[d].id)

BlankPair(p) == Strip(p.typ) = <<>> /\ Strip(p.sent) = <<>>

\* a label cell without its one enclosing pair of brackets
RowLabel(typ) == IF Bracketed(Strip(typ)) THEN Strip(Inner(Strip(typ))) ELSE Strip(typ)

\* a slot after a row was written to it: the row's side where it is set, the
\* prior side where it is blank
Written(before, p) ==
  View(IF RowLabel(p.typ) # <<>> THEN RowLabel(p.typ) ELSE before.label,
       IF Strip(p.sent) # <<>> THEN Strip(p.sent) ELSE before.text)

---------------------------------------------------------------------------
(* Claims about the photo reconciler *)

\* C1 (as claimed): exporting a document whose slots are all non-empty and
\* reconciling the unedited workbook leaves the label and the text of every
\* slot, and the number of slots of every EX entry, as they were.
C1_RoundTripStable ==
  (pc = "applied" /\ source = "export") =>
    \A d \in Docs :
      (/\ UniqueId(d)
       /\ SlotView(json_orig[d]) # <<>>
       /\ \A i \in 1..Len(SlotView(json_orig[d])) : SlotView(json_orig[d])[i].text # <<>>)
      => /\ Len(json_obj[d].EX) = Len(json_orig[d].EX)
         /\ \A e \in 1..Len(json_orig[d].EX) :
              SlotViewEx(json_obj[d], e) = SlotViewEx(json_orig[d], e)

\* C2 (as claimed): a document whose id has no row in the workbook keeps all
\* its slots, with their labels and texts, for both values of skip_blank.
C2_UnmatchedIdKept ==
  pc = "applied" =>
    \A d \in Docs :
      RowsOfId(json_orig[d].id) = <<>> => SlotView(json_obj[d]) = SlotView(json_orig[d])

\* C3 (as claimed): a document whose id has rows, none of which carries a
\* label or a sentence once the skip_blank filter is applied, keeps all its slots.
C3_BlankGroupKept ==
  pc = "applied" =>
    \A d \in Docs :
      LET rows == RowsOfId(json_orig[d].id)
      IN  (/\ rows # <<>>
           /\ \A r \in 1..Len(rows) :
                \/ BlankRow(rows[r])
                \/ (skip_blank /\ Strip(excel_df[rows[r]].sent) = <<>>))
          => SlotView(json_obj[d]) = SlotView(json_orig[d])


\* C4 (as claimed): when the id's group has k rows and the document m > k live
\* slots, exactly the first k slots remain, slot i carrying the content of
\* row i, and the m - k trailing slots are the deleted ones.
C4_TailTruncationAnyRows ==
  pc = "applied" =>
    \A d \in Docs :
      LET seq    == SeqOf(d)
          before == SlotView(json_orig[d])
          after  == SlotView(json_obj[d])
      IN  Len(before) > Len(seq)
          => /\ Len(after) = Len(seq)
             /\ \A i \in 1..Len(seq) : after[i] = Written(before[i], seq[i])

\* a label cell that is an empty pair of brackets
EmptyBrackets(typ) == Strip(typ) # <<>> /\ RowLabel(typ) = <<>>

\* C4 (amended): when the rows collected for the id number k, none of them
\* blank in both label and sentence and no label an empty pair of brackets,
\* and the document has m > k live slots, exactly the first k slots remain,
\* slot i holding what row i sets (its sentence, its label) and the prior text
\* or label where the row is blank, and the m - k trailing slots are deleted.
C4_TailTruncation ==
  pc = "applied" =>
    \A d \in Docs :
      LET seq    == SeqOf(d)
          before == SlotView(json_orig[d])
          after  == SlotView(json_obj[d])
      IN  (/\ Len(before) > Len(seq)
           /\ \A i \in 1..Len(seq) : ~BlankPair(seq[i]) /\ ~EmptyBrackets(seq[i].typ))
          => /\ Len(after) = Len(seq)
             /\ \A i \in 1..Len(seq) : after[i] = Written(before[i], seq[i])

\* C4 witness: a reconcile that kept the first slots of a document, rewrote
\* one of them and deleted the tail
C4_Witness ==
  /\ pc = "applied"
  /\ \E d \in Docs :
       /\ Len(SeqOf(d)) >= 1
       /\ Len(SlotView(json_orig[d])) > Len(SeqOf(d)) + 1
       /\ \A i \in 1..Len(SeqOf(d)) :
            ~BlankPair(SeqOf(d)[i]) /\ ~EmptyBrackets(SeqOf(d)[i].typ)
       /\ Len(SlotView(json_obj[d])) = Len(SeqOf(d))
       /\ SlotView(json_obj[d])[1] # SlotView(json_orig[d])[1]

\* the rows of document d's id that are paired with a slot, when the id has
\* exactly one row per slot and no slot is deleted
PairedRows(d) == RowsOfId(json_orig[d].id)

SameCount(d) ==
  /\ Len(PairedRows(d)) = Len(SlotView(json_orig[d]))
  /\ Len(SlotView(json_obj[d])) = Len(SlotView(json_orig[d]))

\* C5 (as claimed): a row paired with a slot whose label cell is blank and
\* whose sentence is set changes the text and keeps the prior label; a row
\* whose sentence is blank and whose label is set changes the label and keeps
\* the prior text; at every row position, for string and structured slots.
\* Stated for skip_blank = False and an id with one row per slot, none of
\* them deleted, so that row i is the row paired with slot i.
C5_PartialUpdate ==
  (pc = "applied" /\ ~skip_blank) =>
    \A d \in Docs :
      SameCount(d) =>
        \A i \in 1..Len(PairedRows(d)) :
          LET row    == excel_df[PairedRows(d)[i]]
              before == SlotView(json_orig[d])[i]
              after  == SlotView(json_obj[d])[i]
          IN  /\ (Strip(row.typ) = <<>> /\ Strip(row.sent) # <<>>)
                   => (after.text = Strip(row.sent) /\ after.label = before.label)
              /\ (RowLabel(row.typ) # <<>> /\ Strip(row.sent) = <<>>)
                   => (after.label = RowLabel(row.typ) /\ after.text = before.text)

\* C6 (as claimed): with skip_blank = False every row blank in both cells
\* removes exactly the slot at its position and no other; when all rows of
\* the id are blank the document is left without slots and without the
\* exp_sentence key.  Stated for an id with one row per slot; a kept slot
\* whose row has no sentence keeps its text.
C6_DeletionLaw ==
  (pc = "applied" /\ ~skip_blank) =>
    \A d \in Docs :
      LET rows   == RowsOfId(json_orig[d].id)
          before == SlotView(json_orig[d])
          after  == SlotView(json_obj[d])
          kept   == SelectSeq([i \in 1..Len(rows) |-> i], LAMBDA i : ~BlankRow(rows[i]))
      IN  Len(rows) = Len(before)
          => /\ Len(after) = Len(kept)
             /\ \A j \in 1..Len(kept) :
                  Strip(excel_df[rows[kept[j]]].sent) = <<>>
                    => after[j].text = before[kept[j]].text
             /\ kept = <<>> =>
                  \A e \in 1..Len(json_obj[d].EX) :
                    json_obj[d].EX[e].exp_sentence.kind = "none"

\* C7 (as claimed): for either value of skip_blank a row with a label and a
\* blank sentence deletes no slot; when the id has one row per slot and no row
\* is blank in both cells the slot count is unchanged, and the slot paired
\* with a label-only row keeps its text and takes the row's label.
C7_LabelOnlyNoDelete ==
  pc = "applied" =>
    \A d \in Docs :
      LET rows   == RowsOfId(json_orig[d].id)
          before == SlotView(json_orig[d])
          after  == SlotView(json_obj[d])
      IN  (/\ Len(rows) = Len(before)
           /\ \A i \in 1..Len(rows) : ~BlankRow(rows[i]))
          => /\ Len(after) = Len(before)
             /\ \A i \in 1..Len(rows) :
                  (RowLabel(excel_df[rows[i]].typ) # <<>> /\ Strip(excel_df[rows[i]].sent) = <<>>)
                    => (after[i].text = before[i].text
                        /\ after[i].label = RowLabel(excel_df[rows[i]].typ))


\* the rows collected for document d's id that are not blank in both cells
CreatedFrom(d) == SelectSeq(SeqOf(d), LAMBDA p : ~BlankPair(p))

\* the structured slots the creation rule describes for a row sequence: keys
\* 1..k in row order, the row's sentence, the label in one pair of brackets
CreatedEntries(rows) ==
  [j \in 1..Len(rows) |->
    EObj(Key("exp", j),
         IF Strip(rows[j].typ) = <<>> THEN <<>>
         ELSE <<"[">> \o RowLabel(rows[j].typ) \o <<"]">>,
         Strip(rows[j].sent))]

\* document d now holds exactly the slots created from rows, in its first EX entry
CreatedIn(d, rows) ==
  /\ json_obj[d].EX # <<>>
  /\ json_obj[d].EX[1].exp_sentence = ExpDict(CreatedEntries(rows))
  /\ Len(_iter_sentence_slots_with_old(json_obj[d])) = Len(rows)

\* C9 (as claimed): when a document has no live slot and the rows collected
\* for its id include k rows with a non-blank label or sentence, exactly k
\* structured slots are created in its first EX entry, keyed 1..k in row
\* order, slot j holding row j's sentence and row j's label in exactly one
\* pair of brackets, the feature empty when the label is blank.
C9_CreationAnyLabel ==
  pc = "applied" =>
    \A d \in Docs :
      (SlotView(json_orig[d]) = <<>> /\ CreatedFrom(d) # <<>>)
        => CreatedIn(d, CreatedFrom(d))

\* C9 (amended): the same, for rows none of whose labels is an empty pair of
\* brackets.
C9_Creation ==
  pc = "applied" =>
    \A d \in Docs :
      (/\ SlotView(json_orig[d]) = <<>>
       /\ CreatedFrom(d) # <<>>
       /\ \A i \in 1..Len(SeqOf(d)) : ~EmptyBrackets(SeqOf(d)[i].typ))
        => CreatedIn(d, CreatedFrom(d))

\* C9 witness: two slots were created for a document that had none, one from a
\* bracketed label and one from a row without a label
C9_Witness ==
  /\ pc = "applied"
  /\ \E d \in Docs :
       /\ SlotView(json_orig[d]) = <<>>
       /\ Len(CreatedFrom(d)) = 2
       /\ \E i \in 1..2 : Bracketed(CreatedFrom(d)[i].typ) /\ RowLabel(CreatedFrom(d)[i].typ) # <<>>
       /\ \E i \in 1..2 : Strip(CreatedFrom(d)[i].typ) = <<>>
       /\ \A i \in 1..Len(SeqOf(d)) : ~EmptyBrackets(SeqOf(d)[i].typ)
       /\ Len(SlotView(json_obj[d])) = 2

\* C10 (as claimed): reconcile changes metadata.Medium_category only if the
\* rows of the document's id contain a non-blank Medium_category cell, and
\* metadata.note only if they contain a metadata cell with a non-blank note;
\* otherwise the prior value is retained, for either value of skip_blank.
C10_MetadataOnlyFromCells ==
  pc = "applied" =>
    \A d \in Docs :
      LET rows == RowsOfId(json_orig[d].id)
      IN  /\ (\A r \in 1..Len(rows) : excel_df[rows[r]].Medium_category = "")
               => MetaGet(json_obj[d].metadata, "Medium_category")
                    = MetaGet(json_orig[d].metadata, "Medium_category")
          /\ (\A r \in 1..Len(rows) : MetaGet(excel_df[rows[r]].metadata, "note") = "")
               => MetaGet(json_obj[d].metadata, "note")
                    = MetaGet(json_orig[d].metadata, "note")


---------------------------------------------------------------------------
(* The table reconciler, table_to_excel.py *)

\* A label of the 유형 column is a sequence of tokens: 표 "pyo", 행 "haeng",
\* 열 "yeol", 불연속 "bulyeonsok", 영역 "yeongyeok", 설명 "seolmyeong",
\* 문장 "munjang", the blank " " and the underscore "_".
\* the words of the labels, one token per character: 표, 행, 열, 설명, 문장, 불연속, 영역
W_pyo == <<"pyo">>

W_haeng == <<"haeng">>

W_yeol == <<"yeol">>

W_seolmyeong == <<"seol", "myeong">>

W_munjang == <<"mun", "jang">>

W_bulyeonsok == <<"bul", "yeon", "sok">>

W_yeongyeok == <<"yeong", "yeok">>

REF_MAP ==
  [table_ref |-> W_pyo \o <<" ">> \o W_seolmyeong \o <<" ">> \o W_munjang,
   row_ref   |-> W_haeng \o <<" ">> \o W_seolmyeong \o <<" ">> \o W_munjang,
   col_ref   |-> W_yeol \o <<" ">> \o W_seolmyeong \o <<" ">> \o W_munjang,
   cell_ref  |-> W_bulyeonsok \o <<" ">> \o W_yeongyeok \o <<" ">> \o W_seolmyeong
                   \o <<" ">> \o W_munjang]

\* the loose table of _label_to_ref_type, on labels without blanks and underscores
LooseNorm ==
  [table_ref |-> {W_pyo \o W_seolmyeong \o W_munjang, W_pyo \o W_seolmyeong, W_pyo},
   row_ref   |-> {W_haeng \o W_seolmyeong \o W_munjang, W_haeng \o W_seolmyeong, W_haeng},
   col_ref   |-> {W_yeol \o W_seolmyeong \o W_munjang, W_yeol \o W_seolmyeong, W_yeol},
   cell_ref  |-> {W_bulyeonsok \o W_yeongyeok \o W_seolmyeong \o W_munjang,
                  W_bulyeonsok \o W_yeongyeok \o W_seolmyeong,
                  W_bulyeonsok \o W_yeongyeok, W_bulyeonsok}]

\* s.startswith(prefix)
StartsWith(s, prefix) == Len(s) >= Len(prefix) /\ SubSeq(s, 1, Len(prefix)) = prefix

\* the text _label_to_ref_type returns when no rule matches a label
Unmatched(label) == Strip(label)

\* the reference type of a label, as a one-token text
_label_to_ref_type(label) ==
  LET s  == Strip(label)
      s2 == SelectSeq(s, LAMBDA c : c \notin {" ", "_"})
  IN  IF \E t \in DOMAIN REF_MAP : REF_MAP[t] = s
      THEN <<CHOOSE t \in DOMAIN REF_MAP : REF_MAP[t] = s>>
      ELSE IF \E t \in DOMAIN LooseNorm : s2 \in LooseNorm[t]
      THEN <<CHOOSE t \in DOMAIN LooseNorm : s2 \in LooseNorm[t]>>
      ELSE IF StartsWith(s2, W_bulyeonsok) THEN <<"cell_ref">>
      ELSE Unmatched(label)

\* tmp["유형"].ffill().astype(str): a label still blank becomes the text "nan"
TableTypColumn(df) ==
  LET filled == FFill([i \in 1..Len(df) |-> df[i].typ], NoText)
  IN  [i \in 1..Len(df) |-> IF filled[i] = NoText THEN <<"nan">> ELSE filled[i]]

\* the rows _collect_excel_sentences_by_id_type puts into bucket[id]
TypedRows(df, skip, id) ==
  {i \in 1..Len(df) : IdColumn(df)[i] = id /\ ~(skip /\ SentColumn(df)[i] = <<>>)}

\* bucket[id][ref_type] of _collect_excel_sentences_by_id_type(df, skip_blank)
_collect_excel_sentences_by_id_type(df, skip, id, ref_type) ==
  Concat([i \in 1..Len(df) |->
    IF i \in TypedRows(df, skip, id) /\ _label_to_ref_type(TableTypColumn(df)[i]) = ref_type
    THEN <<SentColumn(df)[i]>>
    ELSE <<>>])

\* bucket[id] of _collect_excel_sentences_by_id(df): every row, blank or not
_collect_excel_sentences_by_id(df, id) ==
  Concat([i \in 1..Len(df) |-> IF IdColumn(df)[i] = id THEN <<SentColumn(df)[i]>> ELSE <<>>])

\* the keys that read 설명문장, 설명문장들, 설명문 or 설명 once blanks are removed;
\* "seolmyeong munjang" is 설명 문장, written with a blank
CandidateStems ==
  {"seolmyeongmunjang", "seolmyeong munjang", "seolmyeongmunjangdeul",
   "seolmyeongmun", "seolmyeong"}

\* _set_exp_sentence_on_dict(d, s): the candidate keys are removed and the
\* first of them, or 설명문장, is written last with the value [s]
_set_exp_sentence_on_dict(es, s) ==
  LET cand   == {i \in 1..Len(es) : es[i].key.stem \in CandidateStems}
      target == IF cand # {} THEN es[MinOf(cand)].key ELSE Key("seolmyeongmunjang", -1)
      rest   == SelectSeq(es, LAMBDA en : en.key.stem \notin CandidateStems)
  IN  Append(rest, EList(target, <<s>>))

\* what entering the loop over _iter_exp_slots(ex) leaves in ex: a missing
\* exp_sentence becomes the empty string
TouchExp(exp) == IF exp.kind = "none" THEN ExpStr(NoText) ELSE exp

\* the number of slots _iter_exp_slots yields
NumExpSlots(exp) == IF exp.kind = "list" THEN Len(exp.items) ELSE 1

\* _assign_sentence_to_slot for the j-th slot of an exp_sentence
_assign_sentence_to_slot(exp, j, s) ==
  IF exp.kind = "list"
  THEN IF exp.items[j].ikind = "dict"
       THEN ExpList([exp.items EXCEPT
                       ![j] = ItemDict(_set_exp_sentence_on_dict(exp.items[j].entries, s))])
       ELSE ExpList([exp.items EXCEPT ![j] = ItemBare(s)])
  ELSE IF exp.kind = "dict"
  THEN ExpDict(_set_exp_sentence_on_dict(exp.entries, s))
  ELSE ExpStr(s)

\* the loop over the slots of one EX entry, from slot j with used rows consumed;
\* skipping is the blank test of the path without a type column
RECURSIVE FillSlots(_, _, _, _, _)
FillSlots(exp, j, seq, used, skipping) ==
  IF j > NumExpSlots(exp) \/ used >= Len(seq)
  THEN [exp |-> exp, used |-> used]
  ELSE IF skipping /\ Strip(seq[used + 1]) = <<>>
  THEN FillSlots(exp, j + 1, seq, used + 1, skipping)
  ELSE FillSlots(_assign_sentence_to_slot(exp, j, seq[used + 1]), j + 1, seq, used + 1,
                 skipping)

\* ex["reference"]["reference_type"] as a one-token text
RefOf(ex) == <<ex.reference_type>>

\* the path with a type column: every reference type consumes its own rows
RECURSIVE TypedLoop(_, _, _, _)
TypedLoop(ex_list, e, used_by_type, type_map) ==
  IF e > Len(ex_list) THEN ex_list
  ELSE LET ref_type == RefOf(ex_list[e])
           seq      == type_map[ref_type]
       IN  IF seq = <<>> THEN TypedLoop(ex_list, e + 1, used_by_type, type_map)
           ELSE LET r == FillSlots(TouchExp(ex_list[e].exp_sentence), 1, seq,
                                   used_by_type[ref_type], FALSE)
                IN  TypedLoop([ex_list EXCEPT ![e].exp_sentence = r.exp], e + 1,
                              [used_by_type EXCEPT ![ref_type] = r.used], type_map)

\* the path without a type column: the rows of the id are dealt out in order
RECURSIVE UntypedLoop(_, _, _, _, _)
UntypedLoop(ex_list, e, used, seq, skip) ==
  IF e > Len(ex_list) THEN ex_list
  ELSE LET r   == FillSlots(TouchExp(ex_list[e].exp_sentence), 1, seq, used, skip)
           upd == [ex_list EXCEPT ![e].exp_sentence = r.exp]
       IN  IF r.used >= Len(seq) THEN upd ELSE UntypedLoop(upd, e + 1, r.used, seq, skip)

ApplyTableDoc(doc, df, has_type, skip) ==
  IF has_type
  THEN LET refs == {RefOf(doc.EX[e]) : e \in 1..Len(doc.EX)}
       IN  IF TypedRows(df, skip, doc.id) = {} THEN doc
           ELSE [doc EXCEPT !.EX =
                   TypedLoop(doc.EX, 1, [r \in refs |-> 0],
                             [r \in refs |->
                               _collect_excel_sentences_by_id_type(df, skip, doc.id, r)])]
  ELSE LET seq == _collect_excel_sentences_by_id(df, doc.id)
       IN  IF seq = <<>> THEN doc
           ELSE [doc EXCEPT !.EX = UntypedLoop(doc.EX, 1, 0, seq, skip)]

\* apply_excel_desc_to_json(json_obj, excel_df, skip_blank), the later definition
apply_excel_desc_to_json(docs, df, has_type, skip) ==
  [d \in 1..Len(docs) |-> ApplyTableDoc(docs[d], df, has_type, skip)]


\* _iter_exp_items(ex): the items export reads, whatever the form of exp_sentence
_iter_exp_items(exp) ==
  IF exp.kind = "list" THEN exp.items
  ELSE IF exp.kind = "dict" THEN <<ItemDict(exp.entries)>>
  ELSE IF exp.kind = "str"
  THEN <<ItemDict(<<EList(Key("seolmyeongmunjang", -1), <<exp.text>>)>>)>>
  ELSE <<>>

\* str(v).strip() of a dictionary value that is not a non-empty list
ValueText(en) == IF en.vkind = "list" THEN <<"[", "]">> ELSE Strip(en.text)

\* _pick_sentence(exp_item): the one sentence export shows for an item
_pick_sentence(item) ==
  IF item.ikind = "bare" THEN Strip(item.text)
  ELSE LET es    == item.entries
           named == {i \in 1..Len(es) :
                       es[i].key.stem \in {"seolmyeongmunjang", "seolmyeong munjang",
                                           "seolmyeongmunjangdeul", "seolmyeong"}}
           other == {i \in 1..Len(es) :
                       \/ es[i].vkind = "list" /\ es[i].elems # <<>>
                       \/ es[i].vkind = "scalar"}
           first(i) == IF es[i].vkind = "list" /\ es[i].elems # <<>>
                       THEN Strip(es[i].elems[1]) ELSE ValueText(es[i])
       IN  IF named # {} THEN first(MinOf(named))
           ELSE IF other # {} THEN first(MinOf(other))
           ELSE <<>>

---------------------------------------------------------------------------
(* The forward direction of the table pipeline: table_json_to_xlsx_bytes *)

\* REF_MAP.get(ref_type, ref_type)
RefLabel(ref_type) ==
  IF ref_type \in DOMAIN REF_MAP THEN REF_MAP[ref_type]
  ELSE IF ref_type = "" THEN NoText ELSE <<ref_type>>

\* the rows of one document: one per item of every EX entry
TableRowsOfDoc(doc) ==
  Concat([e \in 1..Len(doc.EX) |->
    LET items == _iter_exp_items(doc.EX[e].exp_sentence)
    IN  [i \in 1..Len(items) |->
          Row(doc.id, "", RefLabel(doc.EX[e].reference_type), _pick_sentence(items[i]),
              doc.metadata)]])

table_rows(docs) == Concat([d \in 1..Len(docs) |-> TableRowsOfDoc(docs[d])])

\* the ids of the rows, and where each first appears and how often
IdsOf(rows) == {rows[i].id : i \in 1..Len(rows)}

FirstRow(rows, id) == MinOf({i \in 1..Len(rows) : rows[i].id = id})

CountOf(rows, id) == Cardinality({i \in 1..Len(rows) : rows[i].id = id})

\* a vertical merge of the document-level columns over rows start .. end
MergeRange(id, start, end) == [id |-> id, start |-> start, end |-> end]

\* group_counts is walked in the order the ids first appear, cur_row advancing
\* by each count
TableCurRow(rows, id) ==
  LET before == {k \in IdsOf(rows) : FirstRow(rows, k) < FirstRow(rows, id)}
      RECURSIVE Sum(_)
      Sum(S) == IF S = {} THEN 0
                ELSE LET k == CHOOSE x \in S : TRUE IN CountOf(rows, k) + Sum(S \ {k})
  IN  1 + Sum(before)

TableMergeRanges(rows) ==
  {MergeRange(id, TableCurRow(rows, id), TableCurRow(rows, id) + CountOf(rows, id) - 1) :
     id \in {k \in IdsOf(rows) : CountOf(rows, k) > 1}}

\* row r lies in a merge range below its top row
CoveredBy(ranges, r) == \E m \in ranges : m.start < r /\ r <= m.end

\* the workbook read back: a merged cell below the top of its range is blank
TableWriteReadExcel(rows) ==
  [r \in 1..Len(rows) |->
    IF CoveredBy(TableMergeRanges(rows), r)
    THEN Row("", "", rows[r].typ, rows[r].sent, <<>>)
    ELSE rows[r]]

---------------------------------------------------------------------------
(* The table documents and spreadsheets the model explores *)

T_a == <<"a">>

T_b == <<"b">>

\* two bare strings
TabList2 == ExEntry("table_ref", ExpList(<<ItemBare(T_a), ItemBare(T_b)>>))

\* dictionary items, one with 설명 문장 and one without a sentence key
TabDictItems ==
  ExEntry("table_ref",
          ExpList(<<ItemDict(<<EList(Key("seolmyeong munjang", -1), <<T_a>>)>>),
                    ItemDict(<<EScalar(Key("k", -1), T_b)>>)>>))

TabDict == ExEntry("table_ref", ExpDict(<<EList(Key("seolmyeongmunjang", -1), <<T_a>>)>>))

RowStr == ExEntry("row_ref", ExpStr(T_b))

RowNone == ExEntry("row_ref", ExpNone)

\* a list item whose single key is free text: {"any": ["a"]}
TabAny == ExEntry("table_ref", ExpList(<<ItemDict(<<EList(Key("any", -1), <<T_a>>)>>)>>))

TableCorpus ==
  { <<Doc("D1", <<>>, <<TabList2, RowStr>>)>>,
    <<Doc("D1", <<>>, <<TabDictItems, TabList2>>)>>,
    <<Doc("D1", <<>>, <<RowNone, TabDict, RowStr>>), Doc("D2", <<>>, <<TabList2>>)>>,
    <<Doc("D2", <<>>, <<RowStr>>), Doc("D1", <<>>, <<TabDict, TabDict>>)>>,
    <<Doc("D1", <<>>, <<TabAny, RowStr, RowNone>>)>> }

\* a blank id cell continues the block above it
TableIdCells == {"D1", ""}

\* label cells: blank, 표 설명 문장, and the loose form 행
TableTypCells == {NoText, REF_MAP.table_ref, <<"haeng">>}

TableRows ==
  {Row(id, "", typ, sent, <<>>) : id \in TableIdCells, typ \in TableTypCells, sent \in SentCells}

---------------------------------------------------------------------------
(* The table pipeline: a JSON and a workbook are uploaded and reconciled *)

InitTable ==
  /\ json_obj \in TableCorpus
  /\ json_orig = json_obj
  /\ excel_df = <<>>
  /\ has_type_col = TRUE
  /\ skip_blank = TRUE
  /\ source = "none"
  /\ pc = "loaded"
  /\ zf = <<>>
  /\ arg = Nothing
  /\ ret = Nothing
  /\ fs = Nothing
  /\ session_state = Nothing

\* the workbook of the archive is read, with or without a 유형 column
UploadTable ==
  /\ pc = "loaded"
  /\ excel_df' \in Sheets(TableRows)
  /\ has_type_col' \in BOOLEAN
  /\ source' = "upload"
  /\ pc' = "sheet"
  /\ UNCHANGED <<json_obj, json_orig, skip_blank>>
  /\ UNCHANGED <<io, aux>>

\* apply_excel_desc_to_json(json_obj, df, skip_blank)
ApplyTable ==
  /\ pc = "sheet"
  /\ \E sb \in BOOLEAN :
       /\ skip_blank' = sb
       /\ json_obj' = apply_excel_desc_to_json(json_obj, excel_df, has_type_col, sb)
  /\ pc' = "applied"
  /\ UNCHANGED <<json_orig, excel_df, has_type_col, source>>
  /\ UNCHANGED <<io, aux>>

\* table_json_to_xlsx_bytes, and the workbook read back
ExportTable ==
  /\ pc = "loaded"
  /\ excel_df' = TableWriteReadExcel(table_rows(json_obj))
  /\ has_type_col' = TRUE
  /\ source' = "export"
  /\ pc' = "sheet"
  /\ UNCHANGED <<json_obj, json_orig, skip_blank>>
  /\ UNCHANGED <<io, aux>>

NextTable == ExportTable \/ UploadTable \/ ApplyTable

SpecTable == InitTable /\ [][NextTable]_vars

---------------------------------------------------------------------------
(* Claims about the table reconciler *)

\* the text export shows for slot j of an exp_sentence
TableSlotText(exp, j) ==
  IF exp.kind = "list" THEN _pick_sentence(exp.items[j])
  ELSE IF _iter_exp_items(exp) = <<>> THEN NoText
  ELSE _pick_sentence(_iter_exp_items(exp)[1])

\* the groups rows and slots are paired in: one per reference type with a type
\* column, one for the whole document without
TableGroups(d) ==
  LET refs == {RefOf(json_orig[d].EX[e]) : e \in 1..Len(json_orig[d].EX)}
  IN  IF has_type_col THEN {{r} : r \in refs} ELSE {refs}

\* the rows of document d's id that fall into group g, blank or not, in row order
TableGroupRows(d, g) ==
  SelectSeq([i \in 1..Len(excel_df) |-> i],
            LAMBDA i : /\ IdColumn(excel_df)[i] = json_orig[d].id
                       /\ has_type_col =>
                            _label_to_ref_type(TableTypColumn(excel_df)[i]) \in g)

\* the slots of document d in group g, in traversal order
TableGroupSlots(d, g) ==
  Concat([e \in 1..Len(json_orig[d].EX) |->
    IF RefOf(json_orig[d].EX[e]) \in g
    THEN [j \in 1..NumExpSlots(json_orig[d].EX[e].exp_sentence) |-> [e |-> e, j |-> j]]
    ELSE <<>>])

\* C8 (as claimed): with skip_blank = True a row whose sentence cell is blank
\* overwrites nothing: the slot at the row's position within its id (and its
\* type, with a type column) keeps its text, and every later row is applied to
\* the slot at its own position.
C8_BlankRowKeepsPlace ==
  (pc = "applied" /\ skip_blank) =>
    \A d \in Docs : \A g \in TableGroups(d) :
      LET rows  == TableGroupRows(d, g)
          slots == TableGroupSlots(d, g)
          n     == IF Len(rows) < Len(slots) THEN Len(rows) ELSE Len(slots)
      IN  \A p \in 1..n :
            LET sent   == SentColumn(excel_df)[rows[p]]
                before == TableSlotText(json_orig[d].EX[slots[p].e].exp_sentence, slots[p].j)
                after  == TableSlotText(json_obj[d].EX[slots[p].e].exp_sentence, slots[p].j)
            IN  after = IF sent = <<>> THEN before ELSE sent


---------------------------------------------------------------------------
(* Claims about what the photo reconciler leaves alone *)

\* the workbook the export of the parsed document list reads back as
ExportedRows == WriteReadExcel(to_rows(json_orig))

\* excel_df is the exported workbook with only 유형 and 설명 문장 cells edited
OnlySentenceEdits ==
  /\ Len(excel_df) = Len(ExportedRows)
  /\ \A i \in 1..Len(excel_df) :
       /\ excel_df[i].id = ExportedRows[i].id
       /\ excel_df[i].Medium_category = ExportedRows[i].Medium_category
       /\ excel_df[i].metadata = ExportedRows[i].metadata

\* a dict as the set of its (key, value) entries
EntrySet(es) == {es[i] : i \in 1..Len(es)}

\* C11 (as claimed): when the rows are the forward extraction of the documents
\* with only label and sentence cells edited, the reconciler leaves every
\* other field of every document as it was: the id, the reference block of
\* every EX entry, and every metadata entry (no key added, removed or changed).
C11_FramePreserved ==
  (pc = "applied" /\ source \in {"export", "export_edit"} /\ OnlySentenceEdits) =>
    \A d \in Docs :
      /\ json_obj[d].id = json_orig[d].id
      /\ EntrySet(json_obj[d].metadata) = EntrySet(json_orig[d].metadata)
      /\ \A e \in 1..Len(json_orig[d].EX) :
           /\ e <= Len(json_obj[d].EX)
           /\ json_obj[d].EX[e].reference_type = json_orig[d].EX[e].reference_type


---------------------------------------------------------------------------
(* Claims about the slots the table reconciler writes and leaves *)

\* the exp_sentence of EX entry e of document d, before and after the apply
ExpBefore(d, e) == json_orig[d].EX[e].exp_sentence

ExpAfter(d, e) == json_obj[d].EX[e].exp_sentence

\* C12 (as claimed): after the table reconciler writes a sentence to a slot
\* that is a single-key map in the exp_sentence list, whatever the key, the
\* slot is still a single-key map with the same key and its value holds only
\* the new sentence; the old text is gone.
C12_SlotShapeKept ==
  pc = "applied" =>
    \A d \in Docs : \A e \in 1..Len(json_orig[d].EX) :
      ExpBefore(d, e).kind = "list" =>
        \A j \in 1..Len(ExpBefore(d, e).items) :
          LET b == ExpBefore(d, e).items[j]
              a == ExpAfter(d, e).items[j]
          IN  (b.ikind = "dict" /\ Len(b.entries) = 1 /\ a # b) =>
                /\ a.ikind = "dict"
                /\ Len(a.entries) = 1
                /\ a.entries[1].key = b.entries[1].key
                /\ a.entries[1].vkind = "list"
                /\ Len(a.entries[1].elems) = 1


\* the sentences the reconciler deals out to group g of document d
TableGroupSeq(d, g) ==
  IF has_type_col
  THEN _collect_excel_sentences_by_id_type(excel_df, skip_blank, json_orig[d].id,
                                           CHOOSE r \in g : TRUE)
  ELSE _collect_excel_sentences_by_id(excel_df, json_orig[d].id)

\* slot sl of document d holds what it held before the apply
SlotUntouched(d, sl) ==
  IF ExpBefore(d, sl.e).kind = "list"
  THEN /\ ExpAfter(d, sl.e).kind = "list"
       /\ ExpAfter(d, sl.e).items[sl.j] = ExpBefore(d, sl.e).items[sl.j]
  ELSE ExpAfter(d, sl.e) = ExpBefore(d, sl.e)

\* no EX entry and no slot is added or removed
SameSlots(d) ==
  /\ Len(json_obj[d].EX) = Len(json_orig[d].EX)
  /\ \A e \in 1..Len(json_orig[d].EX) :
       /\ json_obj[d].EX[e].reference_type = json_orig[d].EX[e].reference_type
       /\ NumExpSlots(ExpAfter(d, e)) = NumExpSlots(ExpBefore(d, e))

\* C13 (as claimed): when a group has fewer sentences than slots, every slot
\* beyond the last consumed sentence, and so every EX entry that receives no
\* sentence, is left exactly as it was (no key added, no value changed); when
\* it has more sentences than slots the surplus is ignored.
C13_MismatchAsClaimed ==
  pc = "applied" =>
    \A d \in Docs :
      /\ SameSlots(d)
      /\ \A g \in TableGroups(d) :
           \A p \in 1..Len(TableGroupSlots(d, g)) :
             p > Len(TableGroupSeq(d, g)) => SlotUntouched(d, TableGroupSlots(d, g)[p])

\* an EX entry without exp_sentence that the loop of the path with a 유형
\* column enters: its type has sentences in the workbook
DefaultSlotMade(d, g, sl) ==
  /\ has_type_col
  /\ TableGroupSeq(d, g) # <<>>
  /\ ExpBefore(d, sl.e).kind = "none"

\* What the code does instead: as claimed, except that an EX entry without
\* exp_sentence whose reference type has at least one sentence in a workbook
\* with a 유형 column gets exp_sentence = "" even when no sentence is left for it.
MismatchWithDefaultSlot ==
  pc = "applied" =>
    \A d \in Docs :
      /\ SameSlots(d)
      /\ \A g \in TableGroups(d) :
           \A p \in 1..Len(TableGroupSlots(d, g)) :
             LET sl == TableGroupSlots(d, g)[p]
             IN  p > Len(TableGroupSeq(d, g)) =>
                   IF DefaultSlotMade(d, g, sl)
                   THEN ExpAfter(d, sl.e) = ExpStr(NoText)
                   ELSE SlotUntouched(d, sl)

\* a group with fewer sentences than slots: its first slot is written and a
\* later entry without exp_sentence gets none; some slot that holds text lies
\* beyond the last sentence of its group
MismatchReached ==
  /\ pc = "applied"
  /\ \E d \in Docs : \E g \in TableGroups(d) :
       /\ Len(TableGroupSeq(d, g)) >= 1
       /\ Len(TableGroupSlots(d, g)) > Len(TableGroupSeq(d, g))
       /\ ~SlotUntouched(d, TableGroupSlots(d, g)[1])
       /\ \E p \in 1..Len(TableGroupSlots(d, g)) :
            /\ p > Len(TableGroupSeq(d, g))
            /\ ExpBefore(d, TableGroupSlots(d, g)[p].e).kind = "none"
  /\ \E d \in Docs : \E g \in TableGroups(d) :
       /\ Len(TableGroupSeq(d, g)) >= 1
       /\ \E p \in 1..Len(TableGroupSlots(d, g)) :
            /\ p > Len(TableGroupSeq(d, g))
            /\ ExpBefore(d, TableGroupSlots(d, g)[p].e).kind \in {"str", "list"}


---------------------------------------------------------------------------
(* The archive adapters: apply_excel_desc_to_json_from_zip *)

\* a member name "dir/stem.ext"; the stem is a sequence of pieces so that a
\* prefix can be tested, e.g. <<"project_", "a">>
ZipName(dir, stem, ext) == [dir |-> dir, stem |-> stem, ext |-> ext]

\* None
NoMember == ZipName("", <<>>, "")

\* the extension of m.lower()
LowerExt(ext) == IF ext = ".JSON" THEN ".json" ELSE ext

\* [m for m in zf.namelist() if m.lower().endswith(suffix)]
Members(names, suffix) == SelectSeq(names, LAMBDA m : LowerExt(m.ext) = suffix)

\* Path(m).name.startswith("project_")
StartsWithProject(m) == m.stem # <<>> /\ m.stem[1] = "project_"

\* the JSON member (project_* first, else the first .json) and the Excel
\* member (the first .xlsx, else the first .xls)
_pick_zip_members(names) ==
  LET json_members == Members(names, ".json")
      xlsx_members == Members(names, ".xlsx")
      xls_members  == Members(names, ".xls")
      project      == SelectSeq(json_members, StartsWithProject)
  IN  [json_member  |-> IF project # <<>> THEN project[1]
                        ELSE IF json_members # <<>> THEN json_members[1]
                        ELSE NoMember,
       excel_member |-> IF xlsx_members # <<>> THEN xlsx_members[1]
                        ELSE IF xls_members # <<>> THEN xls_members[1]
                        ELSE NoMember]

MissingMemberExcelFirst(pick) ==
  IF pick.excel_member = NoMember THEN "no_excel"
  ELSE IF pick.json_member = NoMember THEN "no_json"
  ELSE ""

\* the two tests after the members are picked: which FileNotFoundError is
\* raised, "" for none
MissingMember(pick) ==
  IF pick.json_member = NoMember THEN "no_json"
  ELSE IF pick.excel_member = NoMember THEN "no_excel"
  ELSE ""

Raised(exc, msg) == [status |-> "raised", exc |-> exc, msg |-> msg, out_name |-> NoMember]

\* (updated_json_bytes, out_name): the bytes are json_obj, the name is returned
Returned(out_name) == [status |-> "returned", exc |-> "", msg |-> "", out_name |-> out_name]

\* base[:-5] + "_updated.json"
OutName(json_member) == ZipName("", json_member.stem, "_updated.json")

MaxMembers == 2

ZipDirs == {"", "d/"}

ZipStems == {<<"project_", "a">>, <<"b">>}

ZipExts == {".json", ".JSON", ".xlsx", ".xls", ".txt"}

ZipNames == {ZipName(d, st, x) : d \in ZipDirs, st \in ZipStems, x \in ZipExts}

Archives == UNION {[1..n -> ZipNames] : n \in 0..MaxMembers}

\* what the members hold when they are there
ZipTableDocs == <<Doc("D1", <<>>, <<TabList2, RowStr>>)>>

ZipTableSheet == <<Row("D1", "", REF_MAP.table_ref, <<"x">>, <<>>)>>

ZipPhotoDocs == <<Doc("D1", Meta1, <<ExList2>>)>>

ZipPhotoSheet == <<Row("D1", "", <<"A">>, <<"x">>, <<>>)>>

InitZip ==
  /\ zf \in Archives
  /\ json_obj = <<>>
  /\ json_orig = <<>>
  /\ excel_df = <<>>
  /\ has_type_col = TRUE
  /\ skip_blank = TRUE
  /\ source = "none"
  /\ pc = "loaded"
  /\ arg = Nothing
  /\ ret = Nothing
  /\ fs = Nothing
  /\ session_state = Nothing

\* the steps both adapters share; docs and sheet are what the members hold
FromZip(docs, sheet, photo, sb) ==
  LET pick == _pick_zip_members(zf)
  IN  /\ pc = "loaded"
      /\ skip_blank' = sb
      /\ source' = IF photo THEN "zip_photo" ELSE "zip_table"
      /\ IF MissingMember(pick) # ""
         THEN /\ ret' = Raised("FileNotFoundError", MissingMember(pick))
              /\ pc' = "raised"
              /\ UNCHANGED <<json_obj, json_orig, excel_df>>
         ELSE /\ json_orig' = docs
              /\ excel_df' = sheet
              /\ json_obj' = IF photo
                             THEN apply_excel_desc_to_photo_json(docs, sheet, sb)
                             ELSE apply_excel_desc_to_json(docs, sheet, TRUE, sb)
              /\ ret' = Returned(OutName(pick.json_member))
              /\ pc' = "applied"
      /\ UNCHANGED <<has_type_col, zf, arg, aux>>

\* table_to_excel.apply_excel_desc_to_json_from_zip
FromZipTable == \E sb \in BOOLEAN : FromZip(ZipTableDocs, ZipTableSheet, FALSE, sb)

\* final_json_to_excel.apply_excel_desc_to_json_from_zip
FromZipPhoto == \E sb \in BOOLEAN : FromZip(ZipPhotoDocs, ZipPhotoSheet, TRUE, sb)

NextZip == FromZipTable \/ FromZipPhoto

SpecZip == InitZip /\ [][NextZip]_vars

NoJson == \A i \in 1..Len(zf) : LowerExt(zf[i].ext) # ".json"

NoExcel == \A i \in 1..Len(zf) : LowerExt(zf[i].ext) \notin {".xlsx", ".xls"}

\* C14: when the archive has no .json member or no .xlsx/.xls member, the
\* adapter raises FileNotFoundError, reporting the missing JSON first when
\* both are missing; it returns nothing and nothing is loaded or reconciled.
C14_ArchiveFailure ==
  (pc # "loaded" /\ (NoJson \/ NoExcel)) =>
    /\ pc = "raised"
    /\ ret.status = "raised"
    /\ ret.exc = "FileNotFoundError"
    /\ ret.msg = IF NoJson THEN "no_json" ELSE "no_excel"
    /\ ret.out_name = NoMember
    /\ json_obj = <<>>
    /\ excel_df = <<>>

\* an archive with other members but neither a JSON nor a workbook was rejected
C14_Witness ==
  /\ pc = "raised"
  /\ Len(zf) >= 1
  /\ NoJson
  /\ NoExcel
  /\ ret.msg = "no_json"


---------------------------------------------------------------------------
(* Claims about the exported sheet *)

\* the (label, sentence) pairs of the rows table_json_to_xlsx_bytes builds for
\* the id of document d
TableExportPairs(d) ==
  LET rows == table_rows(json_orig)
      mine == SelectSeq(rows, LAMBDA r : r.id = json_orig[d].id)
  IN  [i \in 1..Len(mine) |-> Pair(mine[i].typ, mine[i].sent)]

\* one row per slot, and one blank row for an entry (or a document) without any
RowsWithBlanks(doc) ==
  IF doc.EX = <<>> THEN <<Pair(NoText, NoText)>>
  ELSE Concat([e \in 1..Len(doc.EX) |->
         LET items == _iter_exp_items(doc.EX[e].exp_sentence)
         IN  IF items = <<>> THEN <<Pair(NoText, NoText)>>
             ELSE [i \in 1..Len(items) |->
                    Pair(RefLabel(doc.EX[e].reference_type), _pick_sentence(items[i]))]])

\* C15 (as claimed): every EX entry without explanation slots, and every
\* document without any, gets exactly one exported row with an empty label
\* and an empty sentence, so every entry and every document contributes at
\* least one row.
C15_EmptyEntryRow ==
  (pc = "sheet" /\ source = "export") =>
    \A d \in Docs : UniqueId(d) => TableExportPairs(d) = RowsWithBlanks(json_orig[d])


\* the merges _write_excel_to_bytes makes: for every id with more than one
\* row, from the row the id first appears in over as many rows as carry it
MergeRanges(rows) ==
  {MergeRange(id, FirstRow(rows, id), FirstRow(rows, id) + CountOf(rows, id) - 1) :
     id \in {k \in IdsOf(rows) : CountOf(rows, k) > 1}}

\* C16 (as claimed): for any document list, also one where two documents
\* with the same id are not adjacent, the exported rows of an id are
\* contiguous, and every merge range of an id covers exactly the rows of that
\* id and no row of another id.
C16_GroupContiguity ==
  (pc = "sheet" /\ source = "export") =>
    LET rows == to_rows(json_orig)
    IN  /\ \A i, j \in 1..Len(rows) :
             (i < j /\ rows[i].id = rows[j].id) =>
               \A k \in i..j : rows[k].id = rows[i].id
        /\ \A m \in MergeRanges(rows) :
             \A r \in 1..Len(rows) : (m.start <= r /\ r <= m.end) <=> rows[r].id = m.id


\* the metadata values that are web addresses: url.startswith(("http://", "https://"))
HttpUrls == {"U1"}

\* first_url_by_id[id]: the meta_url of the first row that carries the id
FirstUrl(rows, id) == MetaGet(rows[FirstRow(rows, id)].metadata, "url")

\* the hyperlinks _write_excel_to_bytes sets: for every non-blank id whose
\* first url is a web address, one on the metadata cell of row start
Hyperlinks(rows) ==
  {[id |-> id, row |-> FirstRow(rows, id), col |-> "metadata", target |-> FirstUrl(rows, id)] :
     id \in {k \in IdsOf(rows) : k # "" /\ FirstUrl(rows, k) \in HttpUrls}}

\* C17 (as claimed): every id of the sheet has at most one hyperlink, set on
\* the metadata cell in the topmost row of the id's block, and no hyperlink is
\* set on a cell that lies inside a merged range below the top row of the range.
C17_HyperlinkPlacement ==
  (pc = "sheet" /\ source = "export") =>
    LET rows  == to_rows(json_orig)
        links == Hyperlinks(rows)
    IN  /\ \A id \in IdsOf(rows) : Cardinality({l \in links : l.id = id}) <= 1
        /\ \A l \in links :
             /\ l.col = "metadata"
             /\ rows[l.row].id = l.id
             /\ \A r \in 1..Len(rows) : rows[r].id = l.id => l.row <= r
             /\ ~CoveredBy(MergeRanges(rows), l.row)


---------------------------------------------------------------------------
(* Helper functions called on their own *)

\* a metadata value: a string, a list of strings, or None
UStr(t) == [vkind |-> "str", text |-> t, elems |-> <<>>]

UList(ts) == [vkind |-> "list", text |-> NoText, elems |-> ts]

UNone == [vkind |-> "none", text |-> NoText, elems |-> <<>>]

\* `not v`
Falsy(v) ==
  \/ v.vkind = "none"
  \/ v.vkind = "str" /\ v.text = <<>>
  \/ v.vkind = "list" /\ v.elems = <<>>

\* repr() of the elements of a list of strings, joined by ", "
RECURSIVE ReprJoin(_)
ReprJoin(ts) ==
  IF ts = <<>> THEN <<>>
  ELSE <<"'">> \o Head(ts) \o <<"'">> \o
       (IF Tail(ts) = <<>> THEN <<>> ELSE <<",", " ">> \o ReprJoin(Tail(ts)))

\* str(v)
Str(v) ==
  IF v.vkind = "str" THEN v.text
  ELSE IF v.vkind = "list" THEN <<"[">> \o ReprJoin(v.elems) \o <<"]">>
  ELSE <<"N", "o", "n", "e">>

\* u.startswith(q) and u.endswith(q)
Quoted(u, q) == Len(u) >= 1 /\ u[1] = q /\ u[Len(u)] = q

\* _clean_url(u)
_clean_url(v) ==
  IF Falsy(v) THEN <<>>
  ELSE LET u == Strip(Str(v))
       IN  IF Quoted(u, "\"") \/ Quoted(u, "'") THEN Strip(Inner(u)) ELSE u

\* the url part of format_metadata_and_url(meta) for meta["url"] = v (a
\* missing key is ""): the text between the quotes of the url line, and url_only
format_url(v) ==
  LET url_only == _clean_url(v)
  IN  [status   |-> "returned",
       url_line |-> IF url_only # <<>> THEN url_only ELSE Str(v),
       url_only |-> url_only]

\* the address http://x
U_x == <<"http://", "x">>

UrlValues ==
  {UNone, UStr(NoText), UStr(U_x), UStr(<<"\"">> \o U_x \o <<"\"">>),
   UStr(<<"'">> \o U_x \o <<"'">>), UStr(<<" ", "\"", " ">> \o U_x \o <<"\"">>),
   UStr(<<"\"">> \o U_x \o <<"'">>), UStr(<<"\"">>),
   UList(<<>>), UList(<<U_x>>), UList(<<U_x, U_x>>)}

Call(fn, val) == [status |-> "call", fn |-> fn, val |-> val]

\* the separators a label may be typed with where REF_MAP has one blank
Seps == {<<>>, <<" ">>, <<"_">>, <<" ", "_">>}

Pads == {<<>>, <<" ">>, <<"_">>}

\* a label with each of its blanks replaced by any separator
RECURSIVE Respace(_)
Respace(s) ==
  IF s = <<>> THEN {<<>>}
  ELSE IF Head(s) = " " THEN {sp \o r : sp \in Seps, r \in Respace(Tail(s))}
  ELSE {<<Head(s)>> \o r : r \in Respace(Tail(s))}

\* s with x put in after its first i characters
InsertAt(s, i, x) == SubSeq(s, 1, i) \o <<x>> \o SubSeq(s, i + 1, Len(s))

\* REF_MAP[c] with blanks and underscores added or removed
LabelVariants(c) ==
  {pre \o v \o post : pre \in Pads, post \in Pads, v \in Respace(REF_MAP[c])}
    \cup {InsertAt(REF_MAP[c], i, x) : i \in 0..Len(REF_MAP[c]), x \in {" ", "_"}}

\* labels of no reference type
OtherLabels ==
  {NoText, <<"X">>, <<" ", "X">>, <<"X", " ">>, <<"X", "_", "Y">>, <<"_">>, <<"nan">>,
   W_pyo \o <<"X">>, W_seolmyeong, W_bulyeonsok \o <<"X">>}

CallInputs ==
  {Call("format_metadata_and_url", v) : v \in UrlValues}
    \cup {Call("_label_to_ref_type", UStr(l)) :
            l \in OtherLabels \cup UNION {LabelVariants(c) : c \in DOMAIN REF_MAP}}
    \cup {Call("_label_to_ref_type", UNone)}

InitCalls ==
  /\ arg \in CallInputs
  /\ ret = Nothing
  /\ fs = Nothing
  /\ session_state = Nothing
  /\ pc = "call"
  /\ json_obj = <<>>
  /\ json_orig = <<>>
  /\ excel_df = <<>>
  /\ has_type_col = TRUE
  /\ skip_blank = TRUE
  /\ source = "none"
  /\ zf = <<>>

\* format_metadata_and_url({"url": v})
CallFormatMetadata ==
  /\ pc = "call"
  /\ arg.fn = "format_metadata_and_url"
  /\ ret' = format_url(arg.val)
  /\ pc' = "returned"
  /\ UNCHANGED <<json_obj, json_orig, excel_df, has_type_col, skip_blank, source, zf, arg,
               aux>>

\* "" if label is None else str(label)
LabelText(v) == IF v.vkind = "none" THEN NoText ELSE Str(v)

\* _label_to_ref_type(label)
CallLabelToRefType ==
  /\ pc = "call"
  /\ arg.fn = "_label_to_ref_type"
  /\ ret' = [status |-> "returned", value |-> _label_to_ref_type(LabelText(arg.val))]
  /\ pc' = "returned"
  /\ UNCHANGED <<json_obj, json_orig, excel_df, has_type_col, skip_blank, source, zf, arg,
               aux>>

NextCalls == CallFormatMetadata \/ CallLabelToRefType

SpecCalls == InitCalls /\ [][NextCalls]_vars

\* C18 (as claimed): format_metadata_and_url returns the bare address u when
\* metadata.url is the string u, the quoted string "u" or 'u', or the
\* single-element list [u], and the url line of the display string embeds u.
C18_UrlUnwrapped ==
  (pc = "returned" /\ arg.fn = "format_metadata_and_url") =>
    (arg.val \in {UStr(U_x), UStr(<<"\"">> \o U_x \o <<"\"">>),
                  UStr(<<"'">> \o U_x \o <<"'">>), UList(<<U_x>>)} =>
       /\ ret.url_only = U_x
       /\ ret.url_line = U_x)


\* a label without its blanks and underscores
Despaced(label) == SelectSeq(label, LAMBDA c : c \notin {" ", "_"})

\* no rule of _label_to_ref_type matches the label
NoRule(label) ==
  /\ Despaced(label) \notin UNION {LooseNorm[t] : t \in DOMAIN LooseNorm}
  /\ ~StartsWith(Despaced(label), W_bulyeonsok)

\* C19 (as claimed): _label_to_ref_type(REF_MAP[c]) = c for each of the four
\* codes, also when blanks or underscores are added to or removed from the
\* label, and a label that matches no rule is returned as given.
C19_LabelAsGiven ==
  (pc = "returned" /\ arg.fn = "_label_to_ref_type" /\ arg.val.vkind = "str") =>
    /\ ret.status = "returned"
    /\ \A c \in DOMAIN REF_MAP : arg.val.text \in LabelVariants(c) => ret.value = <<c>>
    /\ NoRule(arg.val.text) => ret.value = arg.val.text

\* What the code does instead: as claimed, except that a label that matches
\* no rule is returned without its leading and trailing blanks.
LabelRoundTrip ==
  (pc = "returned" /\ arg.fn = "_label_to_ref_type" /\ arg.val.vkind = "str") =>
    /\ ret.status = "returned"
    /\ \A c \in DOMAIN REF_MAP : arg.val.text \in LabelVariants(c) => ret.value = <<c>>
    /\ NoRule(arg.val.text) => ret.value = Strip(arg.val.text)

\* 불연속 영역 설명 문장 typed with underscores was mapped to cell_ref
LabelRoundTripReached ==
  /\ pc = "returned"
  /\ arg.fn = "_label_to_ref_type"
  /\ arg.val.vkind = "str"
  /\ arg.val.text \in LabelVariants("cell_ref")
  /\ arg.val.text # REF_MAP.cell_ref
  /\ \E i \in 1..Len(arg.val.text) : arg.val.text[i] = "_"
  /\ ret.value = <<"cell_ref">>


---------------------------------------------------------------------------
(* The SRL argument cleanup, srl_argument_del.py *)

\* an argument label: the key may be missing, the value may be None
LabelMissing == "<missing>"

LabelNone == "<None>"

\* str(v).strip() of a label
StripLabel(v) == IF v = " " THEN "" ELSE v

\* _normalize_label(v): str(v).strip().upper()
_normalize_label(v) ==
  IF v \in {LabelMissing, LabelNone} THEN ""
  ELSE IF StripLabel(v) = "vx" THEN "VX"
  ELSE StripLabel(v)

_is_empty_label(a) == a.label \in {LabelMissing, LabelNone} \/ StripLabel(a.label) = ""

\* an argument object: its label, its word_id field as a set of ints (empty:
\* no such field) and its character span (begin = -1: no span)
SrlArg(label, word_id, begin, end) ==
  [akind |-> "dict", label |-> label, word_id |-> word_id, begin |-> begin, end |-> end]

\* a list element that is not an object
SrlOther == [akind |-> "other", label |-> LabelMissing, word_id |-> {}, begin |-> -1, end |-> -1]

\* the value of frame["argument"]: a list, a single object, or no such key
ArgList(items) == [shape |-> "list", items |-> items]

ArgDict(a) == [shape |-> "dict", items |-> <<a>>]

ArgMissing == [shape |-> "missing", items |-> <<>>]

\* an SRL frame: the surface form and word ids of its predicate, and its arguments
Frame(form, pred, argument) == [form |-> form, predicate |-> pred, argument |-> argument]

\* a morph entry
Morph(word_id, label) == [word_id |-> word_id, label |-> label]

\* a word with its character span
Word(id, begin, end) == [id |-> id, begin |-> begin, end |-> end]

Sentence(word, morph, srl) == [word |-> word, morph |-> morph, SRL |-> srl]

\* _collect_morph_labels_by_word(sent)[wid], as the set of labels
_collect_morph_labels_by_word(sent, wid) ==
  {sent.morph[i].label : i \in {j \in 1..Len(sent.morph) : sent.morph[j].word_id = wid}}

_arg_word_ids_from_span(a, sent) ==
  IF a.begin = -1 \/ a.end = -1 THEN {}
  ELSE {sent.word[i].id : i \in {j \in 1..Len(sent.word) :
          sent.word[j].begin >= a.begin /\ sent.word[j].end <= a.end}}

_extract_arg_word_ids(a, sent) ==
  IF a.word_id # {} THEN a.word_id ELSE _arg_word_ids_from_span(a, sent)

_argument_has_VX(a, sent) ==
  \E wid \in _extract_arg_word_ids(a, sent) : "VX" \in _collect_morph_labels_by_word(sent, wid)

PredicateHasVX(srl, sent) ==
  \E w \in srl.predicate :
    \E lab \in _collect_morph_labels_by_word(sent, w) : _normalize_label(lab) = "VX"

\* _predicate_is_vx_only(srl, morph_by_wid)
_predicate_is_vx_only(srl, sent) ==
  LET v_like == {_normalize_label(lab) :
                   lab \in UNION {_collect_morph_labels_by_word(sent, w) : w \in srl.predicate}}
                  \cap {"VX", "VV"}
  IN  v_like = {"VX"}

\* _patch_srl_labels on one frame: PTR becomes PRT, in a list or a single object
PatchFrame(srl) ==
  [srl EXCEPT !.argument.items =
     [i \in 1..Len(srl.argument.items) |->
       IF srl.argument.items[i].akind = "dict"
            /\ _normalize_label(srl.argument.items[i].label) = "PTR"
       THEN [srl.argument.items[i] EXCEPT !.label = "PRT"]
       ELSE srl.argument.items[i]]]

\* the argument loop of _process_json_obj: an argument that is not a list
\* counts as no arguments
KeptArgs(srl, sent) ==
  LET args == IF srl.argument.shape = "list" THEN srl.argument.items ELSE <<>>
  IN  SelectSeq(args, LAMBDA a :
        a.akind = "dict" /\ ~(_is_empty_label(a) /\ _argument_has_VX(a, sent)))

\* sent["SRL"] after _process_json_obj
_process_json_obj(sent) ==
  LET patched == [i \in 1..Len(sent.SRL) |-> PatchFrame(sent.SRL[i])]
      live    == SelectSeq(patched, LAMBDA srl : ~_predicate_is_vx_only(srl, sent))
  IN  [i \in 1..Len(live) |-> [live[i] EXCEPT !.argument = ArgList(KeptArgs(live[i], sent))]]

MaxArgs == 2

SrlWords == <<Word(1, 0, 2), Word(2, 3, 5)>>

SrlMorphs ==
  {<<Morph(1, "VX")>>,
   <<Morph(1, "VV"), Morph(1, "EC"), Morph(2, "VX")>>,
   <<Morph(1, "vx"), Morph(2, "EC")>>}

SrlLabels == {LabelMissing, LabelNone, "", " ", "ARG0", "PTR"}

\* arguments covering word 1 or word 2 by word_id, both words by span, or nothing
SrlArgs ==
  {SrlArg(l, {1}, -1, -1) : l \in SrlLabels}
    \cup {SrlArg(l, {2}, 0, 2) : l \in SrlLabels}
    \cup {SrlArg(l, {}, 0, 5) : l \in SrlLabels}
    \cup {SrlArg(l, {}, -1, -1) : l \in SrlLabels}
    \cup {SrlOther}

SrlArguments ==
  {ArgList(items) : items \in UNION {[1..n -> SrlArgs] : n \in 0..MaxArgs}}
    \cup {ArgDict(a) : a \in SrlArgs \ {SrlOther}}
    \cup {ArgMissing}

SrlPredicates == {{}, {1}, {2}, {1, 2}}

SrlSentences ==
  {Sentence(SrlWords, m, <<Frame("f", p, a)>>) :
     m \in SrlMorphs, p \in SrlPredicates, a \in SrlArguments}

InitSRL ==
  /\ arg \in SrlSentences
  /\ ret = Nothing
  /\ fs = Nothing
  /\ session_state = Nothing
  /\ pc = "call"
  /\ json_obj = <<>>
  /\ json_orig = <<>>
  /\ excel_df = <<>>
  /\ has_type_col = TRUE
  /\ skip_blank = TRUE
  /\ source = "none"
  /\ zf = <<>>

\* _process_json_obj on a file with the one sentence
ProcessJsonObj ==
  /\ pc = "call"
  /\ ret' = [status |-> "returned", SRL |-> _process_json_obj(arg)]
  /\ pc' = "returned"
  /\ UNCHANGED <<json_obj, json_orig, excel_df, has_type_col, skip_blank, source, zf, arg,
               aux>>

NextSRL == ProcessJsonObj

SpecSRL == InitSRL /\ [][NextSRL]_vars

\* the label of an argument is missing, None or blank
BlankLabel(a) == a.label \in {LabelMissing, LabelNone, "", " "}

\* the words an argument covers include a morph labelled VX
CoversVX(a) ==
  \E wid \in _extract_arg_word_ids(a, arg) :
    \E i \in 1..Len(arg.morph) : arg.morph[i].word_id = wid /\ arg.morph[i].label = "VX"

\* the arguments of a frame before the cleanup, apart from their labels
Shape(a) == [a EXCEPT !.label = ""]

Shapes(items) == [i \in 1..Len(items) |-> Shape(items[i])]

\* C20 (as claimed): every SRL frame the cleanup keeps has as its argument
\* list exactly its original arguments, in their order, minus those whose
\* label is missing, None or blank and whose covered words include a morph
\* labelled VX; no other argument is dropped, and a frame survives with an
\* empty list when all its arguments are removed.
C20_ArgumentRule ==
  pc = "returned" =>
    \A i \in 1..Len(ret.SRL) :
      \E o \in 1..Len(arg.SRL) :
        /\ arg.SRL[o].form = ret.SRL[i].form
        /\ ret.SRL[i].argument.shape = "list"
        /\ Shapes(ret.SRL[i].argument.items) =
             Shapes(SelectSeq(arg.SRL[o].argument.items,
                              LAMBDA a : ~(BlankLabel(a) /\ CoversVX(a))))


\* What the code does instead: the rule as claimed for an argument list of
\* objects; an element that is not an object is dropped as well, and an
\* argument value that is not a list leaves the frame with an empty list.
ArgumentRuleOnLists ==
  pc = "returned" =>
    \A i \in 1..Len(ret.SRL) :
      \E o \in 1..Len(arg.SRL) :
        /\ arg.SRL[o].form = ret.SRL[i].form
        /\ ret.SRL[i].argument.shape = "list"
        /\ Shapes(ret.SRL[i].argument.items) =
             IF arg.SRL[o].argument.shape = "list"
             THEN Shapes(SelectSeq(arg.SRL[o].argument.items,
                                   LAMBDA a : /\ a.akind = "dict"
                                              /\ ~(BlankLabel(a) /\ CoversVX(a))))
             ELSE <<>>


\* the V-initial morph labels on the predicate words of frame o of the
\* sentence, compared as the cleanup compares them (trimmed, upper case)
PredicateVLabels(o) ==
  {_normalize_label(arg.morph[i].label) :
     i \in {j \in 1..Len(arg.morph) : arg.morph[j].word_id \in arg.SRL[o].predicate}}
    \cap {"VX", "VV"}

\* frame o of the sentence is not among the frames the cleanup returned
FrameDeleted(o) == \A i \in 1..Len(ret.SRL) : ret.SRL[i].form # arg.SRL[o].form

\* C21: an SRL frame is deleted, predicate and arguments together, if and
\* only if the V-initial morph labels on its predicate's words are exactly
\* {VX}; with another V-initial label as well, or with none, it is kept.
C21_PredicateRule ==
  pc = "returned" =>
    \A o \in 1..Len(arg.SRL) : FrameDeleted(o) <=> PredicateVLabels(o) = {"VX"}

\* a frame with arguments was deleted because its predicate word carries VX only
C21_Witness ==
  /\ pc = "returned"
  /\ ret.SRL = <<>>
  /\ arg.SRL[1].argument.items # <<>>
  /\ PredicateVLabels(1) = {"VX"}


---------------------------------------------------------------------------
(* Deletion next to edited rows *)

\* the positions of the rows collected for document d that are paired with a
\* slot and are not blank in both cells: the slots that survive
Surviving(d) ==
  LET seq == SeqOf(d)
      m   == Len(SlotView(json_orig[d]))
      n   == IF Len(seq) < m THEN Len(seq) ELSE m
  IN  SelectSeq([i \in 1..n |-> i], LAMBDA i : ~BlankPair(seq[i]))

\* the collected rows of document d mix rows blank in both cells with edited rows
MixedRows(d) ==
  LET seq == SeqOf(d)
      m   == Len(SlotView(json_orig[d]))
      n   == IF Len(seq) < m THEN Len(seq) ELSE m
  IN  /\ \E i \in 1..n : BlankPair(seq[i])
      /\ \E i \in 1..n : ~BlankPair(seq[i])

---------------------------------------------------------------------------
(* What the cleanup removes *)

\* the non-empty texts of a sequence of texts, stripped, in order
NonEmptyTexts(ts) == SelectSeq([i \in 1..Len(ts) |-> Strip(ts[i])], LAMBDA t : t # <<>>)

\* the texts held by the entries of a dictionary: string values, list
\* elements, and the sent of structured entries
TextsOfEntries(es) ==
  Concat([j \in 1..Len(es) |->
    CASE es[j].vkind = "list" -> es[j].elems
      [] es[j].vkind = "obj"  -> <<es[j].sent>>
      [] OTHER                -> <<es[j].text>>])

\* every explanation sentence of an exp_sentence value that is not empty
SentencesOfExp(exp) ==
  NonEmptyTexts(
    CASE exp.kind = "list" ->
           Concat([i \in 1..Len(exp.items) |->
             IF exp.items[i].ikind = "dict" THEN TextsOfEntries(exp.items[i].entries)
             ELSE <<exp.items[i].text>>])
      [] exp.kind = "dict" -> TextsOfEntries(exp.entries)
      [] exp.kind = "str"  -> <<exp.text>>
      [] OTHER             -> <<>>)

\* document d as the reconcile hands it to the cleanup, on the path that
\* pairs rows with existing slots
BeforeCleanup(d) ==
  LET doc   == ApplyMetadata(json_orig[d], excel_df, skip_blank)
      seq   == SeqOf(d)
      slots == _iter_sentence_slots_with_old(doc)
      n     == IF Len(seq) < Len(slots) THEN Len(seq) ELSE Len(slots)
  IN  DeleteLoop(WriteLoop(doc, slots, seq, 1, n), slots,
                 SortedReverse(DeleteIndices(slots, seq)))

\* the reconcile of document d took the path that ends in the cleanup of
\* its existing slots
CleanedInPlace(d) ==
  _iter_sentence_slots_with_old(ApplyMetadata(json_orig[d], excel_df, skip_blank)) # <<>>
    \/ SeqOf(d) = <<>>

\* C23 (as claimed): every explanation sentence that is non-empty before the
\* cleanup, in a single-key map, as a bare string of the list or in a
\* structured entry, is present with the same text afterwards.
C23_CleanupKeepsSentences ==
  pc = "applied" =>
    \A d \in Docs :
      CleanedInPlace(d) =>
        \A e \in 1..Len(json_obj[d].EX) :
          SentencesOfExp(json_obj[d].EX[e].exp_sentence)
            = SentencesOfExp(BeforeCleanup(d).EX[e].exp_sentence)


\* the exp_sentence value holds no bare string as a list element
NoBareItem(exp) ==
  exp.kind = "list" => \A i \in 1..Len(exp.items) : exp.items[i].ikind = "dict"

\* what the cleanup keeps: the sentences of maps, of lists of maps and of
\* structured dictionaries
CleanupKeepsMapSentences ==
  pc = "applied" =>
    \A d \in Docs :
      CleanedInPlace(d) =>
        \A e \in 1..Len(json_obj[d].EX) :
          NoBareItem(BeforeCleanup(d).EX[e].exp_sentence)
            => SentencesOfExp(json_obj[d].EX[e].exp_sentence)
                 = SentencesOfExp(BeforeCleanup(d).EX[e].exp_sentence)


---------------------------------------------------------------------------
(* The table reconciler of the UI module: a fallback queue for EX entries
   whose reference type has no rows *)

\* _norm_key(s) on the ids of the model: strip()
_norm_key(s) == IF s = " D1" THEN "D1" ELSE s

\* _norm_ref_type(s) on the reference types of the model: lower case,
\* "-" and " " to "_", tableref to table_ref
_norm_ref_type(s) ==
  CASE s \in {"Table-Ref", "tableRef", "table ref"} -> "table_ref"
    [] s \in {"Row-Ref", "rowRef"}                  -> "row_ref"
    [] OTHER                                        -> s

\* the labels added to the loose table: 대상 식별 문장, 형태, 색채, 구성 요소, (비)역사
CustomNorm ==
  [table_ref |-> {<<"dae", "sang", "sik", "byeol", "mun", "jang">>},
   row_ref   |-> {<<"hyeong", "tae">>, <<"(", "bi", ")", "yeok", "sa">>},
   col_ref   |-> {<<"saek", "chae">>},
   cell_ref  |-> {<<"gu", "seong", "yo", "so">>}]

\* _label_to_ref_type(label) of the UI module
Ui_label_to_ref_type(label) ==
  LET s  == Strip(label)
      s2 == SelectSeq(s, LAMBDA c : c \notin {" ", "_"})
  IN  IF \E t \in DOMAIN REF_MAP : REF_MAP[t] = s
      THEN <<CHOOSE t \in DOMAIN REF_MAP : REF_MAP[t] = s>>
      ELSE IF \E t \in DOMAIN LooseNorm : s2 \in LooseNorm[t] \cup CustomNorm[t]
      THEN <<CHOOSE t \in DOMAIN LooseNorm : s2 \in LooseNorm[t] \cup CustomNorm[t]>>
      ELSE IF StartsWith(s2, W_bulyeonsok) THEN <<"cell_ref">>
      ELSE s

\* tmp["id"].ffill().astype(str).map(_norm_key)
UiIdColumn(df) == [i \in 1..Len(df) |-> _norm_key(IdColumn(df)[i])]

\* the rows of bucket[id], in row order
UiTypedRows(df, skip, id) ==
  LET ids   == UiIdColumn(df)
      sents == SentColumn(df)
  IN  SelectSeq([i \in 1..Len(df) |-> i],
                LAMBDA i : ids[i] = id /\ ~(skip /\ sents[i] = <<>>))

\* the reference type a row is filed under
UiRowType(df, i) == Ui_label_to_ref_type(TableTypColumn(df)[i])

\* bucket[id] of _collect_excel_sentences_by_id_type(df, skip_blank): a dict
\* from reference type to sentences, its keys in order of first appearance
Ui_collect_excel_sentences_by_id_type(df, skip, id) ==
  LET rows  == UiTypedRows(df, skip, id)
      typ   == Concat([i \in 1..Len(df) |-> <<UiRowType(df, i)>>])
      sents == SentColumn(df)
      first == SelectSeq(rows, LAMBDA i :
                 \A k \in 1..Len(rows) : rows[k] < i => typ[rows[k]] # typ[i])
  IN  [t \in 1..Len(first) |->
        [key |-> typ[first[t]],
         val |-> Concat([k \in 1..Len(rows) |->
                   IF typ[rows[k]] = typ[first[t]] THEN <<sents[rows[k]]>> ELSE <<>>])]]

\* type_map.get(ref_type, [])
TypeMapGet(type_map, ref_type) ==
  IF \E t \in 1..Len(type_map) : type_map[t].key = ref_type
  THEN type_map[CHOOSE t \in 1..Len(type_map) : type_map[t].key = ref_type].val
  ELSE <<>>

FallbackOfFirstType(type_map) == type_map[1].val

\* fallback_seq: the values of type_map, one after the other
fallback_seq(type_map) == Concat([t \in 1..Len(type_map) |-> type_map[t].val])

fallback_key == <<"__fallback__">>

\* the loop over the EX entries with a type column: an entry whose type has
\* rows consumes them, any other entry consumes the fallback sequence
RECURSIVE UiTypedLoop(_, _, _, _)
UiTypedLoop(ex_list, e, used_by_type, type_map) ==
  IF e > Len(ex_list) THEN ex_list
  ELSE LET ref_type == <<_norm_ref_type(ex_list[e].reference_type)>>
           own      == TypeMapGet(type_map, ref_type)
           seq      == IF own = <<>> THEN fallback_seq(type_map) ELSE own
           key      == IF own = <<>> THEN fallback_key ELSE ref_type
       IN  IF seq = <<>> THEN UiTypedLoop(ex_list, e + 1, used_by_type, type_map)
           ELSE LET r == FillSlots(TouchExp(ex_list[e].exp_sentence), 1, seq,
                                   used_by_type[key], FALSE)
                IN  UiTypedLoop([ex_list EXCEPT ![e].exp_sentence = r.exp], e + 1,
                                [used_by_type EXCEPT ![key] = r.used], type_map)

UiApplyTableDoc(doc, df, has_type, skip) ==
  IF has_type
  THEN LET type_map == Ui_collect_excel_sentences_by_id_type(df, skip, _norm_key(doc.id))
           keys     == {type_map[t].key : t \in 1..Len(type_map)} \cup {fallback_key}
       IN  IF type_map = <<>> THEN doc
           ELSE [doc EXCEPT !.EX = UiTypedLoop(doc.EX, 1, [k \in keys |-> 0], type_map)]
  ELSE LET seq == Concat([i \in 1..Len(df) |->
                    IF UiIdColumn(df)[i] = _norm_key(doc.id)
                    THEN <<SentColumn(df)[i]>> ELSE <<>>])
       IN  IF seq = <<>> THEN doc
           ELSE [doc EXCEPT !.EX = UntypedLoop(doc.EX, 1, 0, seq, skip)]

\* apply_excel_desc_to_json(json_obj, excel_df, skip_blank) of the UI module
Ui_apply_excel_desc_to_json(docs, df, has_type, skip) ==
  [d \in 1..Len(docs) |-> UiApplyTableDoc(docs[d], df, has_type, skip)]

\* EX entries without a reference type and with types no row carries
AnyStr == ExEntry("", ExpStr(T_a))

ColList2 == ExEntry("col_ref", ExpList(<<ItemBare(T_a), ItemBare(T_b)>>))

TabStrLoose == ExEntry("Table-Ref", ExpStr(T_b))

UiCorpus ==
  { <<Doc("D1", <<>>, <<TabList2, AnyStr>>)>>,
    <<Doc("D1", <<>>, <<AnyStr, ColList2, RowStr>>)>>,
    <<Doc("D1", <<>>, <<ColList2, TabStrLoose, AnyStr>>)>>,
    <<Doc("D1", <<>>, <<RowNone, TabDict>>), Doc("D2", <<>>, <<AnyStr, TabList2>>)>> }

UiRows ==
  { Row("D1", "", REF_MAP.table_ref, <<"x">>, <<>>),
    Row("D1", "", <<"haeng">>, <<"y">>, <<>>),
    Row("", "", NoText, <<"z">>, <<>>),
    Row(" D1", "", <<"hyeong", "tae">>, <<"z">>, <<>>),
    Row("D1", "", NoText, <<"x">>, <<>>),
    Row("D1", "", <<"m">>, NoText, <<>>),
    Row("D2", "", REF_MAP.table_ref, <<"y">>, <<>>) }

MaxUiRows == 3

UiSheets == UNION {[1..n -> UiRows] : n \in 0..MaxUiRows}

InitTableUi ==
  /\ json_obj \in UiCorpus
  /\ json_orig = json_obj
  /\ excel_df = <<>>
  /\ has_type_col = TRUE
  /\ skip_blank = TRUE
  /\ source = "none"
  /\ pc = "loaded"
  /\ zf = <<>>
  /\ arg = Nothing
  /\ ret = Nothing
  /\ fs = Nothing
  /\ session_state = Nothing

\* the workbook of the upload is read, with or without a 유형 column
UploadTableUi ==
  /\ pc = "loaded"
  /\ excel_df' \in UiSheets
  /\ has_type_col' \in BOOLEAN
  /\ source' = "upload"
  /\ pc' = "sheet"
  /\ UNCHANGED <<json_obj, json_orig, skip_blank>>
  /\ UNCHANGED <<io, aux>>

\* apply_excel_desc_to_json(json_obj, df, skip_blank) of the UI module
ApplyTableUi ==
  /\ pc = "sheet"
  /\ \E sb \in BOOLEAN :
       /\ skip_blank' = sb
       /\ json_obj' = Ui_apply_excel_desc_to_json(json_obj, excel_df, has_type_col, sb)
  /\ pc' = "applied"
  /\ UNCHANGED <<json_orig, excel_df, has_type_col, source>>
  /\ UNCHANGED <<io, aux>>

NextTableUi == UploadTableUi \/ ApplyTableUi

SpecTableUi == InitTableUi /\ [][NextTableUi]_vars


---------------------------------------------------------------------------
(* Claims about the fallback queue *)

\* the rows of document d's id the reconciler keeps, in row order
UiRowsOf(d) == UiTypedRows(excel_df, skip_blank, _norm_key(json_orig[d].id))

\* the reference type every row of the workbook is filed under
UiTypes == Concat([i \in 1..Len(excel_df) |-> <<UiRowType(excel_df, i)>>])

\* the rows of a sequence grouped by type, the types in order of first
\* appearance and the rows of one type in row order
GroupedByType(rows, typ) ==
  LET R     == {rows[k] : k \in 1..Len(rows)}
      first == [i \in R |-> MinOf({k \in R : typ[k] = typ[i]})]
      ahead == [i \in R |-> Cardinality({k \in R :
                  first[k] < first[i] \/ (first[k] = first[i] /\ k < i)})]
  IN  [p \in 1..Cardinality(R) |-> CHOOSE i \in R : ahead[i] = p - 1]

\* how the rows of document d's id are dealt out: fallback is the shared
\* queue, own[e] the kept rows that carry the normalized type of EX entry e,
\* queue[e] the rows entry e draws from (the shared queue when own[e] is
\* empty), ahead[e] the number of slots of earlier entries on the same queue
QueuePlan(d) ==
  LET EX    == json_orig[d].EX
      rows  == UiRowsOf(d)
      typ   == UiTypes
      fb    == GroupedByType(rows, typ)
      own   == [e \in 1..Len(EX) |->
                 SelectSeq(rows, LAMBDA i : typ[i] = <<_norm_ref_type(EX[e].reference_type)>>)]
      same  == [e \in 1..Len(EX) |->
                 {o \in 1..Len(EX) :
                    IF own[e] = <<>> THEN own[o] = <<>>
                    ELSE _norm_ref_type(EX[o].reference_type)
                           = _norm_ref_type(EX[e].reference_type)}]
  IN  [fallback |-> fb,
       own      |-> own,
       queue    |-> [e \in 1..Len(EX) |-> IF own[e] = <<>> THEN fb ELSE own[e]],
       ahead    |-> [e \in 1..Len(EX) |->
                      Len(Concat([o \in 1..(e - 1) |->
                        IF o \in same[e]
                        THEN [j \in 1..NumExpSlots(EX[o].exp_sentence) |-> j]
                        ELSE <<>>]))]]

\* C24: with a type column, an EX entry whose normalized reference type is
\* empty or has no rows in the id's group is filled, in EX order and slot
\* order, from one shared queue of all the id's sentences grouped by type in
\* order of first appearance, each entry continuing where the previous
\* fallback entry stopped; an entry whose type has rows consumes only the
\* sentences of its own type in row order.
C24_FallbackQueue ==
  (pc = "applied" /\ has_type_col) =>
    \A d \in Docs :
      UiRowsOf(d) # <<>> =>
        LET plan  == QueuePlan(d)
            sents == SentColumn(excel_df)
        IN  \A e \in 1..Len(json_orig[d].EX) :
              /\ NumExpSlots(ExpAfter(d, e)) = NumExpSlots(ExpBefore(d, e))
              /\ \A j \in 1..NumExpSlots(ExpBefore(d, e)) :
                   plan.ahead[e] + j <= Len(plan.queue[e])
                     => TableSlotText(ExpAfter(d, e), j)
                          = sents[plan.queue[e][plan.ahead[e] + j]]

\* two fallback entries shared the queue, the second starting at the row after
\* the first one's last, next to an entry that consumed the rows of its own
\* type; the queue is not in row order
C24_Witness ==
  /\ pc = "applied"
  /\ has_type_col
  /\ \E d \in Docs :
       LET plan == QueuePlan(d)
       IN  \E e1, e2, e3 \in 1..Len(json_orig[d].EX) :
             /\ e1 < e2
             /\ plan.own[e1] = <<>>
             /\ plan.own[e2] = <<>>
             /\ plan.ahead[e2] >= 1
             /\ plan.ahead[e2] + 1 <= Len(plan.fallback)
             /\ ExpAfter(d, e2) # ExpBefore(d, e2)
             /\ plan.own[e3] # <<>>
             /\ ExpAfter(d, e3) # ExpBefore(d, e3)
             /\ plan.fallback # UiRowsOf(d)


\* the slots of document d that hold the text t after the reconcile
SlotsHolding(d, t) ==
  {sl \in UNION {{[e |-> e, j |-> j] : j \in 1..NumExpSlots(ExpAfter(d, e))} :
                  e \in 1..Len(json_obj[d].EX)} :
     TableSlotText(ExpAfter(d, sl.e), sl.j) = t}

\* the kept rows of document d's id carry sentences that are not blank,
\* differ from row to row and are held by no slot before the reconcile
TellingRows(d) ==
  LET rows  == UiRowsOf(d)
      sents == SentColumn(excel_df)
  IN  /\ \A k \in 1..Len(rows) : sents[rows[k]] # <<>>
      /\ \A k, q \in 1..Len(rows) : k # q => sents[rows[k]] # sents[rows[q]]
      /\ \A k \in 1..Len(rows) : \A e \in 1..Len(json_orig[d].EX) :
           \A j \in 1..NumExpSlots(ExpBefore(d, e)) :
             TableSlotText(ExpBefore(d, e), j) # sents[rows[k]]

\* C28 (as claimed): with a type column every row's sentence is written to at
\* most one slot of the document; a sentence consumed by an entry of its own
\* type is not written again to another entry through the fallback queue.
C28_NoSentenceTwice ==
  (pc = "applied" /\ has_type_col) =>
    \A d \in Docs :
      TellingRows(d) =>
        \A k \in 1..Len(UiRowsOf(d)) :
          Cardinality(SlotsHolding(d, SentColumn(excel_df)[UiRowsOf(d)[k]])) <= 1


---------------------------------------------------------------------------
(* The weekly merge of the newspaper evaluation files: merge_newspaper_eval,
   in the version with a base_dir argument (dataly_tools) and in the version
   on the fixed directory (dataly_manager).  A file name is a sequence of
   tokens: a run of digits, "_", a stem, ".json". *)

DigitRuns == {"1", "2", "3", "4", "5", "7"}

\* str(week_num)
WeekStr(w) == <<"1", "2", "3", "4", "5">>[w]

\* strip_prefix(fname): re.sub(r'^\d+_', '', fname)
strip_prefix(fname) ==
  IF Len(fname) >= 2 /\ fname[1] \in DigitRuns /\ fname[2] = "_"
  THEN SubSeq(fname, 3, Len(fname))
  ELSE fname

\* fn.endswith(".json")
EndsWithJson(fn) == Len(fn) >= 1 /\ fn[Len(fn)] = ".json"

\* the keys of {strip_prefix(fn): fn for fn in os.listdir(dir) if fn.endswith(".json")}
KeysOf(dir) == {strip_prefix(fn) : fn \in {f \in dir : EndsWithJson(f)}}

\* a_files[key]; the folders of the model hold one file per key
FileOf(dir, key) == CHOOSE fn \in dir : EndsWithJson(fn) /\ strip_prefix(fn) = key

\* the order sorted() puts the keys of the model in
KeyOrder == <<<<"x", ".json">>, <<"y", ".json">>, <<"z", ".json">>>>

\* candidate_keys = sorted(set(a_files.keys()) & set(b_files.keys()))
candidate_keys(dir_a, dir_b) ==
  SelectSeq(KeyOrder, LAMBDA k : k \in KeysOf(dir_a) \cap KeysOf(dir_b))

\* used_keys: the stripped names of the .json files in the folders of the
\* earlier weeks
used_keys(merged, week_num) ==
  UNION {KeysOf(merged[prev_week]) : prev_week \in 1..(week_num - 1)}

\* remain_keys = [k for k in candidate_keys if k not in used_keys][:files_per_week]
remain_keys(f, week_num, files_per_week) ==
  LET remain == SelectSeq(candidate_keys(f.A, f.B),
                          LAMBDA k : k \notin used_keys(f.merged, week_num))
  IN  SubSeq(remain, 1, MinOf({files_per_week, Len(remain)}))

\* out_name: f"{week_num}_{key}.json" with a base_dir argument,
\* f"{week_num}_{key}" on the fixed directory
out_name(variant, week_num, key) ==
  IF variant = "dataly_tools"
  THEN <<WeekStr(week_num), "_">> \o key \o <<".json">>
  ELSE <<WeekStr(week_num), "_">> \o key

\* the keys of remain_keys whose B file has a dict SC1, in order: the files
\* that are merged and written
WrittenKeys(f, remain) == SelectSeq(remain, LAMBDA k : FileOf(f.B, k) \notin f.no_sc1)

\* the archive shutil.make_archive leaves in the week's folder
ZipOfWeek(week_num) == <<"merged_", WeekStr(week_num), ".zip">>

MaxWeeks == 3

MaxFilesPerWeek == 2

FilesA == {<<"7", "_", "x", ".json">>, <<"y", ".json">>, <<"2", "_", "z", ".json">>,
           <<"notes", ".txt">>}

FilesB == {<<"x", ".json">>, <<"3", "_", "y", ".json">>, <<"z", ".json">>}

InitMerge ==
  /\ json_obj = <<>>
  /\ json_orig = <<>>
  /\ excel_df = <<>>
  /\ has_type_col = FALSE
  /\ skip_blank = FALSE
  /\ source = "none"
  /\ pc = "merge"
  /\ zf = <<>>
  /\ arg = Nothing
  /\ ret = Nothing
  /\ session_state = Nothing
  /\ \E variant \in {"dataly_tools", "dataly_manager"}, a \in SUBSET FilesA, b \in SUBSET FilesB :
       \E bad \in SUBSET (b \cap {<<"z", ".json">>}) :
         fs = [variant |-> variant, A |-> a, B |-> b, no_sc1 |-> bad,
               merged |-> [w \in 1..MaxWeeks |-> {}], week |-> 0, log |-> <<>>]

\* merge_newspaper_eval(week_num, files_per_week, base_dir) for the week
\* after the last one run
MergeNewspaperEval ==
  /\ pc = "merge"
  /\ fs.week < MaxWeeks
  /\ \E files_per_week \in 1..MaxFilesPerWeek :
       LET week_num == fs.week + 1
           remain   == remain_keys(fs, week_num, files_per_week)
           written  == WrittenKeys(fs, remain)
           outs     == {out_name(fs.variant, week_num, written[i]) : i \in 1..Len(written)}
           zip      == IF fs.variant = "dataly_tools" THEN {ZipOfWeek(week_num)} ELSE {}
       IN  fs' = [fs EXCEPT
                   !.merged[week_num] = @ \cup outs \cup zip,
                   !.week = week_num,
                   !.log = Append(@, [week_num |-> week_num,
                                      files_per_week |-> files_per_week,
                                      used |-> used_keys(fs.merged, week_num),
                                      remain |-> remain,
                                      written |-> written])]
  /\ UNCHANGED <<json_obj, json_orig, excel_df, has_type_col, skip_blank, source, pc, io,
                 session_state>>

NextMerge == MergeNewspaperEval

SpecMerge == InitMerge /\ [][NextMerge]_vars

\* the keys a run selected, and those it merged and wrote
Selected(run) == {run.remain[i] : i \in 1..Len(run.remain)}

Merged(run) == {run.written[i] : i \in 1..Len(run.written)}

\* C25 (as claimed): over successive weekly runs on one base directory a key
\* merged and written in an earlier week is never selected in a later week,
\* and every run writes at most files_per_week merged files.
C25_NeverReused ==
  /\ \A i, j \in 1..Len(fs.log) :
       i < j => Merged(fs.log[i]) \cap Selected(fs.log[j]) = {}
  /\ \A i \in 1..Len(fs.log) : Len(fs.log[i].written) <= fs.log[i].files_per_week

\* What holds for both versions: a run selects and writes at most
\* files_per_week files, one output file per written key.
WritesAtMostFilesPerWeek ==
  \A i \in 1..Len(fs.log) :
    /\ Len(fs.log[i].remain) <= fs.log[i].files_per_week
    /\ Len(fs.log[i].written) <= Len(fs.log[i].remain)
    /\ Cardinality({f \in fs.merged[fs.log[i].week_num] : EndsWithJson(f)})
         = Len(fs.log[i].written)

\* What holds on the fixed directory, where the output is named
\* f"{week_num}_{key}": no key written in an earlier week is selected later.
NeverReusedWithPlainName ==
  fs.variant = "dataly_manager" =>
    \A i, j \in 1..Len(fs.log) :
      i < j => Merged(fs.log[i]) \cap Selected(fs.log[j]) = {}

\* three weeks were run on the fixed directory, the second and third taking
\* the keys the earlier weeks left
PlainNameReached ==
  /\ fs.variant = "dataly_manager"
  /\ Len(fs.log) = 3
  /\ fs.log[1].written # <<>>
  /\ fs.log[2].written # <<>>
  /\ fs.log[3].used # {}


---------------------------------------------------------------------------
(* Forward rows against reverse slots *)

\* slots that hold an empty string next to a sentence
ExEmptySlot == ExEntry("", ExpList(<<ItemDict(<<EList(Key("any", -1), <<NoText, T_q>>)>>)>>))

\* a structured slot with a feature and an empty sent, before one with a sentence
ExFeatureOnly ==
  ExEntry("", ExpDict(<<EObj(Key("exp", 1), <<"[", "P", "]">>, NoText),
                        EObj(Key("exp", 2), NoText, T_q)>>))

\* structured keys numbered past 9, inserted out of order
ExNew10 ==
  ExEntry("", ExpDict(<<EObj(Key("exp", 10), NoText, T_q),
                        EObj(Key("exp", 2), <<"[", "P", "]">>, <<"p">>),
                        EObj(Key("exp", 1), <<"[", "Q", "]">>, <<"r">>)>>))

ForwardEntries ==
  {ExList2, ExList3, ExNew2, ExScalars, ExOldDict, ExStr, ExNone, ExBare, ExHollow,
   ExEmptySlot, ExFeatureOnly, ExNew10}

\* documents of one or two EX entries
ForwardDocs ==
  {Doc("D1", Meta1, <<e>>) : e \in ForwardEntries}
    \cup {Doc("D1", Meta1, <<e1, e2>>) : e1 \in ForwardEntries, e2 \in ForwardEntries}

InitForward ==
  /\ json_obj = <<>>
  /\ json_orig = <<>>
  /\ excel_df = <<>>
  /\ has_type_col = FALSE
  /\ skip_blank = FALSE
  /\ source = "none"
  /\ pc = "call"
  /\ zf = <<>>
  /\ arg \in ForwardDocs
  /\ ret = Nothing
  /\ fs = Nothing
  /\ session_state = Nothing

\* extract_sentences(doc) for the rows, _iter_sentence_slots_with_old(doc)
\* for the slots the reconciler pairs them with
ExtractAndIterate ==
  /\ pc = "call"
  /\ ret' = [status |-> "returned",
             pairs  |-> extract_sentences(arg),
             slots  |-> _iter_sentence_slots_with_old(arg)]
  /\ pc' = "returned"
  /\ UNCHANGED <<json_obj, json_orig, excel_df, has_type_col, skip_blank, source, zf, arg,
                 aux>>

NextForward == ExtractAndIterate

SpecForward == InitForward /\ [][NextForward]_vars

\* the label and text of the slots just enumerated
ReturnedView == [i \in 1..Len(ret.slots) |-> ViewOfSlot(ret.slots[i])]

\* C26 (as claimed): for every document the (label, sentence) rows of
\* extract_sentences have the length and the order of the slots of
\* _iter_sentence_slots_with_old, row i describing slot i, also when a slot
\* holds an empty string, a structured slot has a feature and an empty sent,
\* or structured keys are numbered past 9.
C26_RowsMatchSlots ==
  pc = "returned" =>
    /\ Len(ret.pairs) = Len(ret.slots)
    /\ \A i \in 1..Len(ret.pairs) :
         /\ ret.pairs[i].typ = ReturnedView[i].label
         /\ ret.pairs[i].sent = ReturnedView[i].text

\* What holds instead: the rows are the slots that hold a sentence, in slot
\* order (structured keys in numeric order); a slot whose text or sent is
\* empty has no row.
RowsMatchFilledSlots ==
  pc = "returned" =>
    LET filled == SelectSeq(ReturnedView, LAMBDA v : v.text # <<>>)
    IN  /\ Len(ret.pairs) = Len(filled)
        /\ \A i \in 1..Len(ret.pairs) :
             ret.pairs[i].typ = filled[i].label /\ ret.pairs[i].sent = filled[i].text

\* a document with structured keys past 9 and a slot without a sentence was
\* exported: its rows are fewer than its slots
RowsMatchFilledSlotsReached ==
  /\ pc = "returned"
  /\ Len(ret.pairs) >= 3
  /\ Len(ret.pairs) < Len(ret.slots)
  /\ \E e \in 1..Len(arg.EX) : arg.EX[e] = ExNew10


---------------------------------------------------------------------------
(* Reconciling twice *)

\* the documents after the same workbook is applied once more
AppliedAgain == apply_excel_desc_to_photo_json(json_obj, excel_df, skip_blank)

\* C27 (as claimed): with skip_blank = False applying the same rows a second
\* time leaves the documents as the first application left them: a row blank
\* in both cells deletes one slot in total and no surviving slot changes.
C27_Idempotent ==
  (pc = "applied" /\ ~skip_blank) => AppliedAgain = json_obj

\* What holds instead: the second application changes nothing for a document
\* whose collected rows, none of them blank in both cells, number its slots
\* after the first application.
IdempotentWithoutDeletion ==
  (pc = "applied" /\ ~skip_blank) =>
    \A d \in Docs :
      (/\ \A i \in 1..Len(SeqOf(d)) : ~BlankPair(SeqOf(d)[i])
       /\ Len(SlotView(json_obj[d])) = Len(SeqOf(d)))
      => SlotView(AppliedAgain[d]) = SlotView(json_obj[d])


\* two rows were written to the two slots of a document, and applied again
IdempotentReached ==
  /\ pc = "applied"
  /\ ~skip_blank
  /\ \E d \in Docs :
       /\ Len(SeqOf(d)) = 2
       /\ \A i \in 1..Len(SeqOf(d)) : ~BlankPair(SeqOf(d)[i])
       /\ Len(SlotView(json_obj[d])) = 2
       /\ SlotView(json_obj[d]) # SlotView(json_orig[d])


---------------------------------------------------------------------------
(* Forward fill and the rows of other ids *)

\* the rows of the workbook that belong to document d's id, the id written
\* out in every one of them and the other rows left out
OwnSheet(d) ==
  LET rows == RowsOfId(json_orig[d].id)
  IN  [k \in 1..Len(rows) |-> [excel_df[rows[k]] EXCEPT !.id = json_orig[d].id]]

\* the label the reconciler uses for row i when only rows of i's id count:
\* the nearest label cell at or above i among the rows of the same id
LabelWithinId(i) ==
  LET ids  == IdColumn(excel_df)
      same == {j \in 1..i : ids[j] = ids[i] /\ Strip(excel_df[j].typ) # <<>>}
  IN  IF same = {} THEN NoText ELSE Strip(excel_df[MaxOf(same)].typ)

\* C29 (as claimed): the label used for a row depends only on the cells of
\* rows with the same id: a blank label cell is never filled from a row of
\* another id, and the slots of a document come out as they do when the
\* workbook holds the rows of its id alone.
C29_FillWithinId ==
  pc = "applied" =>
    /\ \A i \in 1..Len(excel_df) : TypColumn(excel_df)[i] = LabelWithinId(i)
    /\ \A d \in Docs :
         SlotView(json_obj[d])
           = SlotView(ApplyDoc(json_orig[d], OwnSheet(d), skip_blank))


---------------------------------------------------------------------------
(* The quiz page of streamlit_quiz.py.  Every action is one click followed by
   the rerun of the script it triggers.  A choice is "right" (the answer of
   the question), "wrong" (another choice) or "none" (nothing selected). *)

MaxQuestions == 2

\* the clicks on the submit button of one session are bounded by this score
MaxScore == 4

Immediate == "immediate"

Mock == "mock"

\* list(range(len(questions))), shuffled or not
QuizOrders(n) ==
  {f \in [1..n -> 1..n] : \A i, j \in 1..n : f[i] = f[j] => i = j}

\* the defaults set on the first run of the script
SessionDefaults ==
  [app_mode |-> "setup", solve_mode |-> Immediate, questions |-> 0, quiz_order |-> <<>>,
   step |-> 0, score |-> 0, inputs |-> <<>>, answered |-> <<>>, finished |-> FALSE,
   submitted |-> FALSE, show_answer |-> FALSE, last_judged |-> "none"]

\* reset_to_home()
reset_to_home(s) ==
  [s EXCEPT !.app_mode = "setup", !.show_answer = FALSE, !.submitted = FALSE, !.step = 0,
            !.score = 0, !.finished = FALSE, !.last_judged = "none"]

\* what a run of the script does to the session on the page of the
\* immediate mode: past the last question, or on the last question once it
\* is answered, the session is finished
RerunImmediate(s) ==
  IF s.app_mode # "quiz" \/ s.solve_mode # Immediate \/ s.finished THEN s
  ELSE IF s.step >= Len(s.quiz_order) THEN [s EXCEPT !.finished = TRUE]
  ELSE IF s.step >= s.questions - 1 /\ s.answered[s.quiz_order[s.step + 1]]
  THEN [s EXCEPT !.finished = TRUE]
  ELSE s

\* the question shown in the immediate mode: order[step], counted from 1
CurrentIdx(s) == s.quiz_order[s.step + 1]

InitQuiz ==
  /\ json_obj = <<>>
  /\ json_orig = <<>>
  /\ excel_df = <<>>
  /\ has_type_col = FALSE
  /\ skip_blank = FALSE
  /\ source = "none"
  /\ pc = "quiz"
  /\ zf = <<>>
  /\ arg = Nothing
  /\ ret = Nothing
  /\ fs = Nothing
  /\ session_state = SessionDefaults

QuizFrame ==
  UNCHANGED <<json_obj, json_orig, excel_df, has_type_col, skip_blank, source, pc, io, fs>>

\* the start button of the setup page
StartQuiz ==
  /\ session_state.app_mode = "setup"
  /\ \E n \in 1..MaxQuestions, mode \in {Immediate, Mock} :
       \E order \in QuizOrders(n) :
         session_state' =
           RerunImmediate(
             [session_state EXCEPT
                !.solve_mode = mode, !.questions = n, !.quiz_order = order, !.step = 0,
                !.score = 0, !.show_answer = FALSE,
                !.inputs = [i \in 1..n |-> "none"], !.answered = [i \in 1..n |-> FALSE],
                !.finished = FALSE, !.submitted = FALSE, !.last_judged = "none",
                !.app_mode = "quiz"])
  /\ QuizFrame

\* a choice of the radio of the question shown
Choose ==
  /\ session_state.app_mode = "quiz"
  /\ session_state.solve_mode = Immediate
  /\ ~session_state.finished
  /\ \E choice \in {"right", "wrong"} :
       session_state' =
         RerunImmediate([session_state EXCEPT !.inputs[CurrentIdx(session_state)] = choice])
  /\ QuizFrame

\* the submit button of the question shown
Submit ==
  /\ session_state.app_mode = "quiz"
  /\ session_state.solve_mode = Immediate
  /\ ~session_state.finished
  /\ session_state.score < MaxScore
  /\ LET idx    == CurrentIdx(session_state)
         choice == session_state.inputs[idx]
     IN  session_state' =
           IF choice = "none" THEN session_state
           ELSE RerunImmediate(
                  [session_state EXCEPT
                     !.last_judged = IF choice = "right" THEN "correct" ELSE "wrong",
                     !.score = IF choice = "right" THEN @ + 1 ELSE @,
                     !.answered[idx] = TRUE,
                     !.submitted = TRUE,
                     !.show_answer = TRUE])
  /\ QuizFrame

\* the next-question button, shown once the question was submitted
NextQuestion ==
  /\ session_state.app_mode = "quiz"
  /\ session_state.solve_mode = Immediate
  /\ ~session_state.finished
  /\ session_state.submitted
  /\ session_state' =
       RerunImmediate([session_state EXCEPT !.step = @ + 1, !.submitted = FALSE,
                                            !.last_judged = "none", !.show_answer = FALSE])
  /\ QuizFrame

\* a choice of one radio of the mock exam
ChooseMock ==
  /\ session_state.app_mode = "quiz"
  /\ session_state.solve_mode = Mock
  /\ ~session_state.finished
  /\ \E idx \in 1..session_state.questions, choice \in {"right", "wrong"} :
       session_state' = [session_state EXCEPT !.inputs[idx] = choice]
  /\ QuizFrame

\* the final-submit button of the mock exam
FinalSubmit ==
  /\ session_state.app_mode = "quiz"
  /\ session_state.solve_mode = Mock
  /\ ~session_state.finished
  /\ session_state' =
       [session_state EXCEPT
          !.score = Cardinality({i \in 1..session_state.questions :
                                   session_state.inputs[i] = "right"}),
          !.finished = TRUE]
  /\ QuizFrame

\* the home button of the sidebar, and the two buttons of the result page
Home ==
  /\ session_state' = reset_to_home(session_state)
  /\ QuizFrame

NextQuiz == StartQuiz \/ Choose \/ Submit \/ NextQuestion \/ ChooseMock \/ FinalSubmit \/ Home

SpecQuiz == InitQuiz /\ [][NextQuiz]_vars

\* the session is one of the immediate mode, started and not reset
InImmediateQuiz ==
  session_state.app_mode = "quiz" /\ session_state.solve_mode = Immediate

\* the number of questions answered so far
AnsweredCount ==
  Cardinality({i \in 1..session_state.questions : session_state.answered[i]})

\* C30 (as claimed): in the immediate mode the score never exceeds the number
\* of questions answered so far, hence never the number of questions, and
\* the session is finished once the last question has been submitted.
C30_ScoreBound ==
  InImmediateQuiz =>
    /\ session_state.score <= AnsweredCount
    /\ session_state.score <= session_state.questions
    /\ (/\ session_state.step = session_state.questions - 1
        /\ session_state.answered[CurrentIdx(session_state)])
         => session_state.finished

\* What holds instead: the session is finished once the last question has
\* been submitted, and a finished session of n questions has all of them
\* answered.
FinishedAfterLastSubmit ==
  InImmediateQuiz =>
    /\ (/\ session_state.step = session_state.questions - 1
        /\ session_state.answered[CurrentIdx(session_state)])
         => session_state.finished
    /\ session_state.finished => AnsweredCount = session_state.questions

\* a session of two questions was finished
FinishedReached ==
  /\ InImmediateQuiz
  /\ session_state.questions = 2
  /\ session_state.finished
  /\ session_state.score >= 1

====
